---- MODULE Spec2Model ----
(***************************************************************************)
(* A model of the context-element binding engine: the attribute grammar,   *)
(* the per-node dispatch tables, the attribute synchronizer, the event     *)
(* dispatcher, the single renderer and the keyed renderer registry of      *)
(* context-array, together with the host element's data flow.              *)
(*                                                                         *)
(* Strings are sequences of one-character strings, so that split,          *)
(* endsWith, startsWith and indexOf are computed and not assumed.          *)
(* JavaScript values are tagged records; a JavaScript Map is a sequence of *)
(* [k, v] entries in insertion order with pairwise distinct keys.          *)
(***************************************************************************)
EXTENDS Integers, Sequences, FiniteSets, TLC

\* ------------------------------------------------------------------ bounds

\* number of distinct key values the data items may carry
NumKeys == 2
\* longest data array handed to context-array
MaxLen == 2
\* most animation-frame callbacks pending at one time
MaxFrames == 2
\* most <template> anchors an aborted pass may leave behind before the page is dropped
MaxAnchors == 2

\* longest data array in which a key is repeated among other keys
MaxRepeat == 3

\* ----------------------------------------------------------------- strings

s_watch == <<"w", "a", "t", "c", "h">>
s_action == <<"a", "c", "t", "i", "o", "n">>
s_toggle == <<"t", "o", "g", "g", "l", "e">>
s_click == <<"c", "l", "i", "c", "k">>
s_dblclick == <<"d", "b", "l", "c", "l", "i", "c", "k">>
s_focus == <<"f", "o", "c", "u", "s">>
s_submit == <<"s", "u", "b", "m", "i", "t">>
s_on == <<"o", "n">>
s_content == <<"c", "o", "n", "t", "e", "n", "t">>
s_data == <<"d", "a", "t", "a">>
s_reducer == <<"r", "e", "d", "u", "c", "e", "r">>
s_class == <<"c", "l", "a", "s", "s">>
s_name == <<"n", "a", "m", "e">>
s_id == <<"i", "d">>
s_base == <<"b", "a", "s", "e">>
s_hot == <<"h", "o", "t">>
s_null == <<"n", "u", "l", "l">>
s_undefined == <<"u", "n", "d", "e", "f", "i", "n", "e", "d">>
s_Changed == <<"C", "h", "a", "n", "g", "e", "d">>
s_x == <<"x">>
s_y == <<"y">>
s_A == <<"A">>
s_B == <<"B">>
s_dot == <<".">>
s_DEL == <<"D", "E", "L">>
s_NEXT == <<"N", "E", "X", "T">>
s_SWAP == <<"S", "W", "A", "P">>
s_ADD == <<"A", "D", "D">>
s_DIV == <<"D", "I", "V">>
s_BUTTON == <<"B", "U", "T", "T", "O", "N">>
s_TEMPLATE == <<"T", "E", "M", "P", "L", "A", "T", "E">>

STATE_PROPERTY == <<"_", "s", "t", "a", "t", "e">>
STATE_GLOBAL == <<"*">>
DATA_WATCH_ATTRIBUTE == s_watch
DATA_ACTION_ATTRIBUTE == s_action
DATA_TOGGLE_ATTRIBUTE == s_toggle
DATA_KEY_ATTRIBUTE == s_data \o s_dot \o <<"k", "e", "y">>
ARRAY_CONTEXT_ELEMENT_TAG_NAME ==
    <<"c", "o", "n", "t", "e", "x", "t", "-", "a", "r", "r", "a", "y">>
CONTEXT_ELEMENT_TAG_NAME ==
    <<"c", "o", "n", "t", "e", "x", "t", "-", "e", "l", "e", "m", "e", "n", "t">>

Lower == <<"a", "b", "c", "d", "e", "f", "g", "h", "i", "j", "k", "l", "m",
           "n", "o", "p", "q", "r", "s", "t", "u", "v", "w", "x", "y", "z">>
Upper == <<"A", "B", "C", "D", "E", "F", "G", "H", "I", "J", "K", "L", "M",
           "N", "O", "P", "Q", "R", "S", "T", "U", "V", "W", "X", "Y", "Z">>

\* String.prototype.toUpperCase on the letters a..z
ToUpperCase(s) ==
    [i \in 1..Len(s) |->
        IF \E j \in 1..26 : Lower[j] = s[i]
        THEN Upper[CHOOSE j \in 1..26 : Lower[j] = s[i]]
        ELSE s[i]]

\* String.prototype.startsWith
StartsWith(s, p) == Len(p) <= Len(s) /\ \A j \in 1..Len(p) : s[j] = p[j]

\* String.prototype.endsWith
EndsWith(s, p) == Len(p) <= Len(s) /\ \A j \in 1..Len(p) : s[Len(s) - Len(p) + j] = p[j]

\* text.indexOf(txt) >= 0
Includes(s, p) == \E i \in 1..(Len(s) - Len(p) + 1) : \A j \in 1..Len(p) : s[i + j - 1] = p[j]

\* types.ts contains: some member of texts occurs in text
Contains(text, texts) == \E i \in 1..Len(texts) : Includes(text, texts[i])

RECURSIVE SplitFrom(_, _, _)
SplitFrom(s, i, cur) ==
    IF i > Len(s) THEN <<cur>>
    ELSE IF s[i] = "." THEN <<cur>> \o SplitFrom(s, i + 1, <<>>)
    ELSE SplitFrom(s, i + 1, Append(cur, s[i]))

\* attributeName.split('.')
Split(s) == SplitFrom(s, 1, <<>>)

RECURSIVE Join(_, _)
\* Array.prototype.join(sep) on an array of strings
Join(parts, sep) ==
    IF parts = <<>> THEN <<>>
    ELSE IF Len(parts) = 1 THEN parts[1]
    ELSE parts[1] \o sep \o Join(Tail(parts), sep)

\* ------------------------------------------------------------------ values

Str(s) == [t |-> "str", v |-> s]
Num(n) == [t |-> "num", v |-> n]
Obj(f) == [t |-> "obj", v |-> f]
Arr(q) == [t |-> "arr", v |-> q]
Null == [t |-> "null"]
Undefined == [t |-> "undefined"]

\* types.ts hasValue / hasNoValue
hasValue(p) == p # Undefined /\ p # Null /\ p # Str(<<>>)
hasNoValue(p) == ~hasValue(p)

\* the string setAttribute stores for a value
StringOf(val) ==
    CASE val.t = "str" -> val.v
      [] val.t = "null" -> s_null
      [] val.t = "undefined" -> s_undefined
      [] val.t = "num" -> <<"#">>
      [] OTHER -> <<"[", "o", "]">>

\* obj[field]: the field's value, undefined when the object has no such field
\* (callers never index null or undefined)
Field(val, f) ==
    IF val.t = "obj" /\ f \in DOMAIN val.v THEN val.v[f] ELSE Undefined

\* const x = val; body: val is evaluated once and bound to the parameter of K
Let(val, K(_)) == K(val)

\* ----------------------------------------------------------- JavaScript Map

MapHas(m, k) == \E i \in 1..Len(m) : m[i].k = k
MapIdx(m, k) == CHOOSE i \in 1..Len(m) : m[i].k = k
MapGet(m, k) == m[MapIdx(m, k)].v
\* a set that keeps the value a key already has
MapSetKeepFirst(m, k, val) ==
    IF MapHas(m, k) THEN m ELSE Append(m, [k |-> k, v |-> val])
MapSet(m, k, val) ==
    IF MapHas(m, k) THEN [m EXCEPT ![MapIdx(m, k)].v = val]
    ELSE Append(m, [k |-> k, v |-> val])
\* has(v) / get(v) for a JavaScript value used as key of a string-keyed map
MapHasVal(m, val) == val.t = "str" /\ MapHas(m, val.v)

\* --------------------------------------------------------------------- DOM
\* A node is identified by <<c, i>>: the i-th node (in document order) of the
\* c-th copy of the template; copy 0 is the markup the page author wrote and
\* <<-1, j>> are the <template> anchor elements render passes create.

Element(tag, attrs, kids) ==
    [kind |-> "el", tag |-> tag, text |-> <<>>, attrs |-> attrs, kids |-> kids,
     props |-> <<>>, html |-> Undefined, cb |-> <<>>, listeners |-> <<>>]
Text(txt) ==
    [kind |-> "text", tag |-> <<>>, text |-> txt, attrs |-> <<>>, kids |-> <<>>,
     props |-> <<>>, html |-> Undefined, cb |-> <<>>, listeners |-> <<>>]
Attr(name, value) == [k |-> name, v |-> value]

\* the properties an element of a tag has (attribute in element)
PropertiesOf(tag) ==
    IF tag = s_BUTTON THEN {s_name, <<"v", "a", "l", "u", "e">>, <<"t", "i", "t", "l", "e">>}
    ELSE IF tag \in {ToUpperCase(CONTEXT_ELEMENT_TAG_NAME),
                     ToUpperCase(ARRAY_CONTEXT_ELEMENT_TAG_NAME)}
    THEN {s_data, s_reducer, <<"t", "i", "t", "l", "e">>}
    ELSE {<<"t", "i", "t", "l", "e">>}

\* element.getAttributeNames()
GetAttributeNames(node) == [i \in 1..Len(node.attrs) |-> node.attrs[i].k]
\* element.getAttribute(name): null when the attribute is absent
GetAttribute(node, name) ==
    IF MapHas(node.attrs, name) THEN Str(MapGet(node.attrs, name)) ELSE Null
\* element.setAttribute(name, value)
SetAttribute(node, name, val) == [node EXCEPT !.attrs = MapSet(node.attrs, name, StringOf(val))]
\* element.removeAttribute(name)
RemoveAttribute(node, name) ==
    [node EXCEPT !.attrs = SelectSeq(node.attrs, LAMBDA e : e.k # name)]

Whitespace == {" ", "\n", "\t"}
\* no-empty-text-node: a text node passes only if it holds a non-blank character
noEmptyTextNode(node) ==
    IF node.kind = "text" THEN \E i \in 1..Len(node.text) : node.text[i] \notin Whitespace
    ELSE TRUE

\* position of a node in a child list, 0 when it is not in it
IndexIn(list, n) == IF \E i \in 1..Len(list) : list[i] = n
                    THEN CHOOSE i \in 1..Len(list) : list[i] = n ELSE 0
Without(list, n) == SelectSeq(list, LAMBDA e : e # n)
\* anchor.previousSibling among the host's children (<<0, 0>> stands for null)
NoNode == <<0, 0>>
PreviousSibling(list, n) ==
    IF IndexIn(list, n) > 1 THEN list[IndexIn(list, n) - 1] ELSE NoNode
\* parent.insertBefore(node, ref): node leaves its old place, then sits before
\* ref; with ref the node itself the reference becomes its next sibling and the
\* node stays where it is
InsertBefore(list, n, ref) ==
    IF n = ref THEN list
    ELSE LET l == Without(list, n)
             i == IndexIn(l, ref)
         IN SubSeq(l, 1, i - 1) \o <<n>> \o SubSeq(l, i, Len(l))

RECURSIVE Subtree(_, _)
\* the nodes of the subtrees rooted at `roots`, in document order
Subtree(store, roots) ==
    IF roots = <<>> THEN <<>>
    ELSE <<roots[1]>> \o Subtree(store, store[roots[1]].kids) \o Subtree(store, Tail(roots))

\* node.cloneNode(true) for every node of `roots`, as copy c: attributes, text,
\* content and children are copied; properties, callbacks and listeners are not
CloneNodes(store, roots, c) ==
    LET src == Subtree(store, roots)
        new(n) == <<c, IndexIn(src, n)>>
        copy(n) == [store[n] EXCEPT !.kids = [j \in 1..Len(store[n].kids) |-> new(store[n].kids[j])],
                                    !.props = <<>>, !.cb = <<>>, !.listeners = <<>>]
    IN [store |-> [id \in DOMAIN store \cup {new(src[i]) : i \in 1..Len(src)} |->
                     IF id \in {new(src[i]) : i \in 1..Len(src)}
                     THEN copy(src[CHOOSE i \in 1..Len(src) : new(src[i]) = id])
                     ELSE store[id]],
        roots |-> [j \in 1..Len(roots) |-> new(roots[j])]]

\* ----------------------------------------------------- attribute-evaluator

RECURSIVE mapEventStateActionGlobalFrom(_, _, _)
\* an action table that files every name under the global state
mapEventStateActionGlobalFrom(av, i, acc) ==
    IF i > Len(av) THEN acc
    ELSE IF ~EndsWith(av[i].k, DATA_ACTION_ATTRIBUTE)
    THEN mapEventStateActionGlobalFrom(av, i + 1, acc)
    ELSE LET attributes == Split(av[i].k)
             event == IF Len(attributes) = 1 THEN s_click ELSE attributes[1]
             inner == IF MapHas(acc, event) THEN MapGet(acc, event) ELSE <<>>
         IN mapEventStateActionGlobalFrom(av, i + 1,
                MapSet(acc, event, MapSet(inner, STATE_GLOBAL, av[i].v)))

RECURSIVE mapEventStateActionFrom(_, _, _)
mapEventStateActionFrom(av, i, acc) ==
    IF i > Len(av) THEN acc
    ELSE IF ~EndsWith(av[i].k, DATA_ACTION_ATTRIBUTE)
    THEN mapEventStateActionFrom(av, i + 1, acc)
    ELSE LET attributes == Split(av[i].k)
             event == IF Len(attributes) = 1 THEN s_click ELSE attributes[1]
             state == IF Len(attributes) > 2 THEN attributes[2] ELSE STATE_GLOBAL
             inner == IF MapHas(acc, event) THEN MapGet(acc, event) ELSE <<>>
         IN mapEventStateActionFrom(av, i + 1,
                MapSet(acc, event, MapSet(inner, state, av[i].v)))

\* the action table: event -> state -> action type
mapEventStateAction(attributeValue) == mapEventStateActionFrom(attributeValue, 1, <<>>)

RECURSIVE mapStateAttributePropertyGlobalFrom(_, _, _)
\* a watch table that files every name under the global state
mapStateAttributePropertyGlobalFrom(av, i, acc) ==
    IF i > Len(av) THEN acc
    ELSE IF ~EndsWith(av[i].k, DATA_WATCH_ATTRIBUTE)
    THEN mapStateAttributePropertyGlobalFrom(av, i + 1, acc)
    ELSE LET attributes == Split(av[i].k)
             attribute == IF Len(attributes) = 1 THEN s_content ELSE attributes[1]
             inner == IF MapHas(acc, STATE_GLOBAL) THEN MapGet(acc, STATE_GLOBAL) ELSE <<>>
         IN mapStateAttributePropertyGlobalFrom(av, i + 1,
                MapSet(acc, STATE_GLOBAL, MapSet(inner, attribute, av[i].v)))

RECURSIVE mapStateAttributePropertyFrom(_, _, _)
mapStateAttributePropertyFrom(av, i, acc) ==
    IF i > Len(av) THEN acc
    ELSE IF ~EndsWith(av[i].k, DATA_WATCH_ATTRIBUTE)
    THEN mapStateAttributePropertyFrom(av, i + 1, acc)
    ELSE LET attributes == Split(av[i].k)
             attribute == IF Len(attributes) = 1 THEN s_content ELSE attributes[1]
             state == IF Len(attributes) > 2 THEN attributes[2] ELSE STATE_GLOBAL
             inner == IF MapHas(acc, state) THEN MapGet(acc, state) ELSE <<>>
         IN mapStateAttributePropertyFrom(av, i + 1,
                MapSet(acc, state, MapSet(inner, attribute, av[i].v)))

\* the watch table: state -> attribute -> path
mapStateAttributeProperty(attributeValue) ==
    mapStateAttributePropertyFrom(attributeValue, 1, <<>>)

\* error-message: the text of the error for a toggle name without 3 segments
toggleMissingStateAndProperty ==
    <<"t", "o", "g", "g", "l", "e", " ", "r", "e", "q", "u", "i", "r", "e", " ", "3", " ",
      "p", "a", "r", "a", "m", "e", "t", "e", "r", "s", " ",
      "s", "e", "p", "a", "r", "a", "t", "e", "d", " ", "w", "i", "t", "h", " ",
      "d", "o", "t", "(", ".", ")", " ", ":", " ", "'", " ", "e", "g", " ",
      "<", "d", "i", "v", " ", "c", "l", "a", "s", "s", "=", "\"", "m", "y", "-", "d", "i", "v", "\"", " ",
      "c", "l", "a", "s", "s", ".", "d", "i", "s", "a", "b", "l", "e", "d", ".",
      "t", "o", "g", "g", "l", "e", "=", "\"", "d", "i", "s", "a", "b", "l", "e", "d", "C", "s", "s", "\"", ">",
      "<", "/", "d", "i", "v", ">">>

RECURSIVE mapAttributeStatePropertyLenientFrom(_, _, _)
\* a toggle table that passes over the names that do not have 3 segments
mapAttributeStatePropertyLenientFrom(av, i, acc) ==
    IF i > Len(av) THEN [thrown |-> FALSE, map |-> acc]
    ELSE IF ~EndsWith(av[i].k, DATA_TOGGLE_ATTRIBUTE) \/ Len(Split(av[i].k)) # 3
    THEN mapAttributeStatePropertyLenientFrom(av, i + 1, acc)
    ELSE LET attributes == Split(av[i].k)
             inner == IF MapHas(acc, attributes[1]) THEN MapGet(acc, attributes[1]) ELSE <<>>
         IN mapAttributeStatePropertyLenientFrom(av, i + 1,
                MapSet(acc, attributes[1], MapSet(inner, attributes[2], av[i].v)))

RECURSIVE mapAttributeStatePropertyFrom(_, _, _)
mapAttributeStatePropertyFrom(av, i, acc) ==
    IF i > Len(av) THEN [thrown |-> FALSE, map |-> acc]
    ELSE IF ~EndsWith(av[i].k, DATA_TOGGLE_ATTRIBUTE)
    THEN mapAttributeStatePropertyFrom(av, i + 1, acc)
    ELSE LET attributes == Split(av[i].k)
         IN IF Len(attributes) = 3
            THEN LET attribute == attributes[1]
                     state == attributes[2]
                     inner == IF MapHas(acc, attribute) THEN MapGet(acc, attribute) ELSE <<>>
                 IN mapAttributeStatePropertyFrom(av, i + 1,
                        MapSet(acc, attribute, MapSet(inner, state, av[i].v)))
            ELSE [thrown |-> TRUE, map |-> acc, message |-> toggleMissingStateAndProperty]

\* the toggle table: attribute -> state -> value; throws unless 3 segments
mapAttributeStateProperty(attributeValue) ==
    mapAttributeStatePropertyFrom(attributeValue, 1, <<>>)

\* the binding attributes of the element, in declaration order
populateActiveAttributeValue(node) ==
    SelectSeq(node.attrs, LAMBDA e :
        Contains(e.k, <<DATA_WATCH_ATTRIBUTE, DATA_ACTION_ATTRIBUTE, DATA_TOGGLE_ATTRIBUTE>>))

\* an element that keeps its binding attributes
StripNothing(node) == node

\* an element that loses only the attributes whose names end with a keyword
StripBoundOnly(node) ==
    [node EXCEPT !.attrs = SelectSeq(node.attrs, LAMBDA e :
        /\ ~EndsWith(e.k, DATA_WATCH_ATTRIBUTE)
        /\ ~EndsWith(e.k, DATA_ACTION_ATTRIBUTE)
        /\ ~EndsWith(e.k, DATA_TOGGLE_ATTRIBUTE))]

\* the element once populateActiveAttributeValue removed those attributes
StripActiveAttributes(node) ==
    [node EXCEPT !.attrs = SelectSeq(node.attrs, LAMBDA e :
        ~Contains(e.k, <<DATA_WATCH_ATTRIBUTE, DATA_ACTION_ATTRIBUTE, DATA_TOGGLE_ATTRIBUTE>>))]

\* the attributes left on the element
populateDefaultAttributeValue(node) == node.attrs

\* event.startsWith('on') ? event.substring(2) : event
ListenerEventName(event) ==
    IF StartsWith(event, s_on) THEN SubSeq(event, Len(s_on) + 1, Len(event)) ELSE event

\* one addEventListener per entry of the action table, in table order; the
\* listener keeps its stateAction map and the renderer (copy c) it belongs to
initEventListener(node, eventStateAction, c) ==
    [node EXCEPT !.listeners = node.listeners \o
        [i \in 1..Len(eventStateAction) |->
            [event |-> ListenerEventName(eventStateAction[i].k),
             stateAction |-> eventStateAction[i].v,
             renderer |-> c]]]

\* the calls of the first two lines of the constructor on the element: one
\* removeAttribute per binding attribute, then the capture of the defaults
ConstructorCalls(id, activeAttributeValue) ==
    [i \in 1..Len(activeAttributeValue) |->
        [op |-> "removeAttribute", node |-> id, name |-> activeAttributeValue[i].k]]
    \o <<[op |-> "populateDefaultAttributeValue", node |-> id]>>

\* new AttributeEvaluator(activeNode, dataGetter, updateData, reducer):
\* the evaluator, the element as the constructor leaves it, the calls it made
\* on the element, and whether it threw
NewAttributeEvaluator(id, node, c) ==
    Let(populateActiveAttributeValue(node), LAMBDA activeAttributeValue :
    Let(StripActiveAttributes(node), LAMBDA stripped :
    Let(mapEventStateAction(activeAttributeValue), LAMBDA eventStateAction :
    Let(mapAttributeStateProperty(activeAttributeValue), LAMBDA toggle :
        IF toggle.thrown
        THEN [thrown |-> TRUE, node |-> stripped, evaluator |-> <<>>,
              calls |-> ConstructorCalls(id, activeAttributeValue),
              message |-> toggle.message]
        ELSE [thrown |-> FALSE,
              calls |-> ConstructorCalls(id, activeAttributeValue),
              node |-> initEventListener(stripped, eventStateAction, c),
              evaluator |-> [activeNode |-> id,
                             defaultAttributeValue |-> populateDefaultAttributeValue(stripped),
                             eventStateAction |-> eventStateAction,
                             stateAttributeProperty |->
                                 mapStateAttributeProperty(activeAttributeValue),
                             attributeStateProperty |-> toggle.map]]))))

\* A handler is computed on a record m of the host's fields (see Machine
\* below); m.trace lists the calls the handler made, in order, and m.thrown
\* names the error that is propagating ("" when none is).

Call(m, entry) == [m EXCEPT !.trace = Append(m.trace, entry)]

RECURSIVE WalkPath(_, _, _)
\* data.<seg1>.<seg2>...: [ok, val]; reading a property of null or undefined,
\* or an empty segment, makes the generated function throw
WalkPath(cur, segs, i) ==
    IF i > Len(segs) THEN [ok |-> TRUE, val |-> cur]
    ELSE IF segs[i] = <<>> \/ cur = Null \/ cur = Undefined
    THEN [ok |-> FALSE, val |-> Null]
    ELSE WalkPath(Field(cur, segs[i]), segs, i + 1)

\* an extractValue that yields undefined when evaluation throws
extractValueUndefined(data, prop) ==
    IF hasNoValue(data) THEN data
    ELSE IF WalkPath(data, Split(prop), 1).ok THEN WalkPath(data, Split(prop), 1).val
    ELSE Undefined

\* extractValue(data, prop): the value at the path, null when evaluation throws
extractValue(data, prop) ==
    IF hasNoValue(data) THEN data
    ELSE WalkPath(data, Split(prop), 1).val

RECURSIVE AssignPath(_, _, _, _)
\* data.<seg1>.<seg2>... = value: the object after the assignment; setting a
\* property of null or undefined throws and setting one of a string or a
\* number has no effect, and either way the object stays as it was
AssignPath(cur, segs, i, value) ==
    IF cur.t # "obj" THEN cur
    ELSE IF i = Len(segs)
    THEN Obj([f \in DOMAIN cur.v \cup {segs[i]} |-> IF f = segs[i] THEN value ELSE cur.v[f]])
    ELSE IF segs[i] \notin DOMAIN cur.v THEN cur
    ELSE Obj([cur.v EXCEPT ![segs[i]] = AssignPath(@, segs, i + 1, value)])

\* injectValue(data, prop, value): the data after the call; a path with an
\* empty segment does not compile and nothing is assigned
injectValue(data, prop, value) ==
    IF hasNoValue(data) THEN data
    ELSE IF \E i \in 1..Len(Split(prop)) : Split(prop)[i] = <<>> THEN data
    ELSE AssignPath(data, Split(prop), 1, value)

\* types.ts composeChangeEventName
composeChangeEventName(attribute) == attribute \o s_Changed

\* a validator that lets every name through
isValidAttributeAlways(attributeName) == TRUE

\* attribute-validator: 'data' and 'reducer' are never written as attributes
isValidAttribute(attributeName) == attributeName \notin {s_data, s_reducer}

\* element.innerHTML = val: the element's children are replaced by the markup
SetInnerHTML(node, val) ==
    [node EXCEPT !.html = Str(IF val = Null THEN <<>> ELSE StringOf(val)), !.kids = <<>>]

\* the body of attributeProps.forEach in updateWatchAttribute, for one entry
WatchOne(m, id, data, attribute, property) ==
    Let(extractValue(data, property), LAMBDA val :
    Let(IF isValidAttribute(attribute)
        THEN Call([m EXCEPT !.nodes[id] = SetAttribute(@, attribute, val)],
                  [op |-> "setAttribute", node |-> id, name |-> attribute,
                   value |-> StringOf(val), by |-> "watch"])
        ELSE m, LAMBDA m1 :
    Let(IF attribute \in PropertiesOf(m.nodes[id].tag)
        THEN [m1 EXCEPT !.nodes[id].props = MapSet(@, attribute, val),
                        !.nodes[id].cb = MapSet(@, composeChangeEventName(attribute),
                                                [data |-> data, property |-> property])]
        ELSE m1, LAMBDA m2 :
        IF attribute = s_content
        THEN [m2 EXCEPT !.nodes[id] = SetInnerHTML(@, val)]
        ELSE m2)))

RECURSIVE WatchEach(_, _, _, _, _)
WatchEach(m, id, data, attributeProps, i) ==
    IF i > Len(attributeProps) THEN m
    ELSE WatchEach(WatchOne(m, id, data, attributeProps[i].k, attributeProps[i].v),
                   id, data, attributeProps, i + 1)

\* an updateWatchAttribute that prefers the table of the global state
updateWatchAttributeGlobalFirst(m, id, stateAttributeProperty, dataGetterValue, dataState) ==
    IF MapHasVal(stateAttributeProperty, dataState)
       \/ MapHas(stateAttributeProperty, STATE_GLOBAL)
    THEN WatchEach(m, id, dataGetterValue.data,
                   MapGet(stateAttributeProperty,
                          IF MapHas(stateAttributeProperty, STATE_GLOBAL)
                          THEN STATE_GLOBAL ELSE dataState.v), 1)
    ELSE m

\* an updateWatchAttribute that applies the table of the state and then the
\* entries of the global table for the attributes the state's table lacks
updateWatchAttributeMerged(m, id, stateAttributeProperty, dataGetterValue, dataState) ==
    Let(IF MapHasVal(stateAttributeProperty, dataState)
        THEN MapGet(stateAttributeProperty, dataState.v) ELSE <<>>, LAMBDA own :
    Let(IF MapHas(stateAttributeProperty, STATE_GLOBAL)
        THEN MapGet(stateAttributeProperty, STATE_GLOBAL) ELSE <<>>, LAMBDA global :
        WatchEach(m, id, dataGetterValue.data,
                  own \o SelectSeq(global, LAMBDA e : ~MapHas(own, e.k)), 1)))

\* updateWatchAttribute(element, stateAttributeProperty, dataGetterValue, dataState)
updateWatchAttribute(m, id, stateAttributeProperty, dataGetterValue, dataState) ==
    IF MapHasVal(stateAttributeProperty, dataState)
       \/ MapHas(stateAttributeProperty, STATE_GLOBAL)
    THEN WatchEach(m, id, dataGetterValue.data,
                   MapGet(stateAttributeProperty,
                          IF MapHasVal(stateAttributeProperty, dataState)
                          THEN dataState.v ELSE STATE_GLOBAL), 1)
    ELSE m

\* a toggle body that falls back to the value of the global state
ToggleOneGlobalFallback(m, id, attribute, stateProperty, dataState, defaultAttributeValue) ==
    Let(IF MapHas(defaultAttributeValue, attribute)
        THEN Str(MapGet(defaultAttributeValue, attribute)) ELSE Undefined, LAMBDA defaultValue :
    Let(IF MapHasVal(stateProperty, dataState)
        THEN Str(MapGet(stateProperty, dataState.v))
        ELSE IF MapHas(stateProperty, STATE_GLOBAL)
        THEN Str(MapGet(stateProperty, STATE_GLOBAL)) ELSE Undefined, LAMBDA propertyValue :
    Let((IF hasValue(defaultValue) THEN <<defaultValue.v>> ELSE <<>>)
        \o (IF hasValue(propertyValue) THEN <<propertyValue.v>> ELSE <<>>),
        LAMBDA attributeValue :
    Let(Join(attributeValue, <<" ">>), LAMBDA newAttributeValue :
        IF GetAttribute(m.nodes[id], attribute) # Str(newAttributeValue)
        THEN Call([m EXCEPT !.nodes[id] = SetAttribute(@, attribute, Str(newAttributeValue))],
                  [op |-> "setAttribute", node |-> id, name |-> attribute,
                   value |-> newAttributeValue, by |-> "toggle"])
        ELSE m))))

\* a toggle body that writes the computed string whatever the live value is
ToggleOneAlwaysWrites(m, id, attribute, stateProperty, dataState, defaultAttributeValue) ==
    Let(IF MapHas(defaultAttributeValue, attribute)
        THEN Str(MapGet(defaultAttributeValue, attribute)) ELSE Undefined, LAMBDA defaultValue :
    Let(IF MapHasVal(stateProperty, dataState)
        THEN Str(MapGet(stateProperty, dataState.v)) ELSE Undefined, LAMBDA propertyValue :
    Let((IF hasValue(defaultValue) THEN <<defaultValue.v>> ELSE <<>>)
        \o (IF hasValue(propertyValue) THEN <<propertyValue.v>> ELSE <<>>),
        LAMBDA attributeValue :
    Let(Join(attributeValue, <<" ">>), LAMBDA newAttributeValue :
        Call([m EXCEPT !.nodes[id] = SetAttribute(@, attribute, Str(newAttributeValue))],
             [op |-> "setAttribute", node |-> id, name |-> attribute,
              value |-> newAttributeValue, by |-> "toggle"])))))

\* the body of attributeStateProperty.forEach in updateToggleAttribute
ToggleOne(m, id, attribute, stateProperty, dataState, defaultAttributeValue) ==
    Let(IF MapHas(defaultAttributeValue, attribute)
        THEN Str(MapGet(defaultAttributeValue, attribute)) ELSE Undefined, LAMBDA defaultValue :
    Let(IF MapHasVal(stateProperty, dataState)
        THEN Str(MapGet(stateProperty, dataState.v)) ELSE Undefined, LAMBDA propertyValue :
    Let((IF hasValue(defaultValue) THEN <<defaultValue.v>> ELSE <<>>)
        \o (IF hasValue(propertyValue) THEN <<propertyValue.v>> ELSE <<>>),
        LAMBDA attributeValue :
    Let(Join(attributeValue, <<" ">>), LAMBDA newAttributeValue :
        IF GetAttribute(m.nodes[id], attribute) # Str(newAttributeValue)
        THEN Call([m EXCEPT !.nodes[id] = SetAttribute(@, attribute, Str(newAttributeValue))],
                  [op |-> "setAttribute", node |-> id, name |-> attribute,
                   value |-> newAttributeValue, by |-> "toggle"])
        ELSE m))))

RECURSIVE ToggleEach(_, _, _, _, _, _)
ToggleEach(m, id, attributeStateProperty, dataState, defaultAttributeValue, i) ==
    IF i > Len(attributeStateProperty) THEN m
    ELSE ToggleEach(ToggleOne(m, id, attributeStateProperty[i].k, attributeStateProperty[i].v,
                              dataState, defaultAttributeValue),
                    id, attributeStateProperty, dataState, defaultAttributeValue, i + 1)

\* updateToggleAttribute(element, attributeStateProperty, dataState, defaultAttributeValue)
updateToggleAttribute(m, id, attributeStateProperty, dataState, defaultAttributeValue) ==
    ToggleEach(m, id, attributeStateProperty, dataState, defaultAttributeValue, 1)

\* AttributeEvaluator.render: reads the snapshot through the renderer's getter,
\* then runs the watch pass and the toggle pass
AttributeEvaluatorRender(m, evaluator, dataGetterValue) ==
    Let(Field(dataGetterValue.data, STATE_PROPERTY), LAMBDA dataState :
        updateToggleAttribute(
            updateWatchAttribute(
                Call(m, [op |-> "read", node |-> evaluator.activeNode,
                         snapshot |-> dataGetterValue]),
                evaluator.activeNode, evaluator.stateAttributeProperty,
                dataGetterValue, dataState),
            evaluator.activeNode, evaluator.attributeStateProperty,
            dataState, evaluator.defaultAttributeValue))

\* -------------------------------------------------------------- data-renderer

s_asset == <<"a", "s", "s", "e", "t">>
DATA_ASSET_ATTRIBUTE == s_asset
activeAttributes ==
    <<DATA_WATCH_ATTRIBUTE, DATA_ACTION_ATTRIBUTE, DATA_TOGGLE_ATTRIBUTE, DATA_ASSET_ATTRIBUTE>>

\* Set.add over a sequence kept in insertion order
SetAddAll(acc, ids) ==
    acc \o SelectSeq(ids, LAMBDA n : ~\E i \in 1..Len(acc) : acc[i] = n)

RECURSIVE activeNodesLookupDeep(_, _, _)
\* a lookup that also visits the children of a component element
activeNodesLookupDeep(store, attributesSuffix, ids) ==
    IF ids = <<>> THEN <<>>
    ELSE Let(store[ids[1]], LAMBDA node :
         SetAddAll(
             IF ~noEmptyTextNode(node) \/ node.kind # "el" THEN <<>>
             ELSE SetAddAll(
                      IF \E i \in 1..Len(node.attrs) :
                             Contains(node.attrs[i].k, attributesSuffix)
                      THEN <<ids[1]>> ELSE <<>>,
                      activeNodesLookupDeep(store, attributesSuffix, node.kids)),
             activeNodesLookupDeep(store, attributesSuffix, Tail(ids))))

RECURSIVE activeNodesLookup(_, _, _)
\* the elements of the subtrees that carry a binding attribute, in the order
\* the Set receives them; the children of a component element are not visited
activeNodesLookup(store, attributesSuffix, ids) ==
    IF ids = <<>> THEN <<>>
    ELSE Let(store[ids[1]], LAMBDA node :
         SetAddAll(
             IF ~noEmptyTextNode(node) \/ node.kind # "el" THEN <<>>
             ELSE SetAddAll(
                      IF \E i \in 1..Len(node.attrs) :
                             Contains(node.attrs[i].k, attributesSuffix)
                      THEN <<ids[1]>> ELSE <<>>,
                      IF ~Contains(node.tag, <<ToUpperCase(ARRAY_CONTEXT_ELEMENT_TAG_NAME),
                                               ToUpperCase(CONTEXT_ELEMENT_TAG_NAME)>>)
                      THEN activeNodesLookup(store, attributesSuffix, node.kids) ELSE <<>>),
             activeNodesLookup(store, attributesSuffix, Tail(ids))))

RECURSIVE NewEvaluators(_, _, _, _, _)
\* activeNodes.map(activeNode => new AttributeEvaluator(...)): stops at a throw
NewEvaluators(m, activeNodes, c, i, acc) ==
    IF i > Len(activeNodes) THEN [m |-> m, evaluators |-> acc]
    ELSE Let(NewAttributeEvaluator(activeNodes[i], m.nodes[activeNodes[i]], c), LAMBDA made :
         Let([m EXCEPT !.nodes[activeNodes[i]] = made.node,
                       !.trace = @ \o made.calls], LAMBDA m1 :
             IF made.thrown
             THEN [m |-> Call([m1 EXCEPT !.thrown = "toggle"],
                              [op |-> "throw", error |-> "toggle", message |-> made.message]),
                   evaluators |-> acc]
             ELSE NewEvaluators(m1, activeNodes, c, i + 1, Append(acc, made.evaluator))))

NoGetter == [none |-> TRUE]

\* new DataRenderer(nodes, updateData, reducer): [m, renderer]; m.thrown is
\* set when an evaluator's constructor threw
NewDataRenderer(m, nodes, c, reducer) ==
    Let(NewEvaluators(m, activeNodesLookup(m.nodes, activeAttributes, nodes), c, 1, <<>>),
        LAMBDA made :
        [m |-> made.m,
         renderer |-> [id |-> c, nodes |-> nodes, attributeEvaluators |-> made.evaluators,
                       dataGetter |-> NoGetter, reducer |-> reducer]])

RECURSIVE RenderEvaluators(_, _, _, _)
RenderEvaluators(m, evaluators, dataGetterValue, i) ==
    IF i > Len(evaluators) THEN m
    ELSE RenderEvaluators(AttributeEvaluatorRender(m, evaluators[i], dataGetterValue),
                          evaluators, dataGetterValue, i + 1)

\* a render that hands the getter to the evaluators and does not store it
DataRendererRenderUnstored(m, renderer, getter) ==
    [m |-> RenderEvaluators(m, renderer.attributeEvaluators, getter, 1),
     renderer |-> renderer]

\* DataRenderer.render(getter): the getter is stored, then every evaluator
\* renders reading through it; [m, renderer]
DataRendererRender(m, renderer, getter) ==
    Let([renderer EXCEPT !.dataGetter = getter], LAMBDA stored :
        [m |-> RenderEvaluators(m, stored.attributeEvaluators, stored.dataGetter, 1),
         renderer |-> stored])

\* ----------------------------------------------------------- context-element
\* m.rends holds the DataRenderer objects by the number of the template copy
\* they own; m.renderer (single mode, 0 for null) and m.renderers (array mode,
\* key -> number) refer to them.

\* the number of a template copy no live node carries
FreeCopy(m) == CHOOSE c \in 1..(Cardinality(DOMAIN m.nodes) + 1) :
                  /\ \A id \in DOMAIN m.nodes : id[1] # c
                  /\ \A b \in 1..(c - 1) : \E id \in DOMAIN m.nodes : id[1] = b

\* document.createElement('template'): an element no one holds yet
FreeAnchor(m) == CHOOSE j \in 1..(Cardinality(DOMAIN m.nodes) + 1) :
                    /\ <<-1, j>> \notin DOMAIN m.nodes
                    /\ \A b \in 1..(j - 1) : <<-1, b>> \in DOMAIN m.nodes

\* this.append(anchorNode) with a fresh <template> element
AppendAnchor(m, anchor) ==
    Call([m EXCEPT !.nodes = (anchor :> Element(s_TEMPLATE, <<>>, <<>>)) @@ @,
                   !.kids = Append(@, anchor)],
         [op |-> "append", node |-> anchor])

RECURSIVE PlaceNodesAtFixedAnchor(_, _, _, _)
\* a PlaceNodes whose anchorNode never advances to the node just placed
PlaceNodesAtFixedAnchor(m, reversedNodes, i, anchorNode) ==
    IF i > Len(reversedNodes) THEN [m |-> m, anchorNode |-> anchorNode]
    ELSE PlaceNodesAtFixedAnchor(
             IF PreviousSibling(m.kids, anchorNode) # reversedNodes[i]
             THEN Call([m EXCEPT !.kids = InsertBefore(@, reversedNodes[i], anchorNode)],
                       [op |-> "insertBefore", node |-> reversedNodes[i], ref |-> anchorNode])
             ELSE m,
             reversedNodes, i + 1, anchorNode)

RECURSIVE PlaceNodesAlwaysMoving(_, _, _, _)
\* a PlaceNodes without the test of previousSibling: every node is inserted
PlaceNodesAlwaysMoving(m, reversedNodes, i, anchorNode) ==
    IF i > Len(reversedNodes) THEN [m |-> m, anchorNode |-> anchorNode]
    ELSE Let(reversedNodes[i], LAMBDA node :
             PlaceNodesAlwaysMoving(
                 Call([m EXCEPT !.kids = InsertBefore(@, node, anchorNode)],
                      [op |-> "insertBefore", node |-> node, ref |-> anchorNode]),
                 reversedNodes, i + 1, node))

RECURSIVE PlaceNodes(_, _, _, _)
\* for (const node of reversedNodes) { if (anchorNode.previousSibling !== node)
\* this.insertBefore(node, anchorNode); anchorNode = node }: [m, anchorNode]
PlaceNodes(m, reversedNodes, i, anchorNode) ==
    IF i > Len(reversedNodes) THEN [m |-> m, anchorNode |-> anchorNode]
    ELSE Let(reversedNodes[i], LAMBDA node :
             PlaceNodes(IF PreviousSibling(m.kids, anchorNode) # node
                        THEN Call([m EXCEPT !.kids = InsertBefore(@, node, anchorNode)],
                                  [op |-> "insertBefore", node |-> node, ref |-> anchorNode])
                        ELSE m,
                        reversedNodes, i + 1, node))

Reverse(q) == [i \in 1..Len(q) |-> q[Len(q) + 1 - i]]

\* this.lastChild.remove()
RemoveLastChild(m) ==
    Call([m EXCEPT !.kids = SubSeq(@, 1, Len(@) - 1)],
         [op |-> "removeLast", node |-> m.kids[Len(m.kids)]])

\* template.map(node => node.cloneNode(true)) then new DataRenderer(...):
\* [m, renderer]
CloneAndConstruct(m, key) ==
    Let(FreeCopy(m), LAMBDA c :
    Let(CloneNodes(m.nodes, m.template.v, c), LAMBDA cloned :
        NewDataRenderer(Call([m EXCEPT !.nodes = cloned.store],
                             [op |-> "clone", copy |-> c, key |-> key]),
                        cloned.roots, c, m.reducer)))

\* ContextElement.render
ContextElementRender(m) ==
    IF hasNoValue(m.dataSource) \/ hasNoValue(m.template) THEN m
    ELSE Let(IF m.renderer = 0 THEN CloneAndConstruct(m, Undefined)
             ELSE [m |-> m, renderer |-> m.rends[m.renderer]], LAMBDA made :
         IF made.m.thrown # "" THEN made.m
         ELSE
         Let(made.renderer.id, LAMBDA c :
         Let([made.m EXCEPT !.renderer = c, !.rends = (c :> made.renderer) @@ @], LAMBDA m1 :
         Let(<<-1, FreeAnchor(m1)>>, LAMBDA anchor :
         Let(PlaceNodes(AppendAnchor(m1, anchor), Reverse(made.renderer.nodes), 1, anchor),
             LAMBDA placed :
         Let([data |-> m.dataSource], LAMBDA getter :
         Let(DataRendererRender(
                 Call(placed.m, [op |-> "render", copy |-> c, snapshot |-> getter]),
                 made.renderer, getter), LAMBDA rendered :
             RemoveLastChild([rendered.m EXCEPT !.rends[c] = rendered.renderer]))))))))

\* -------------------------------------------------------------- context-array

\* a defaultDataKeyPicker without the check of dataKeyField
defaultDataKeyPickerUnchecked(m, data) ==
    [thrown |-> FALSE,
     key |-> IF hasNoValue(m.dataKeyField) THEN Undefined ELSE Field(data, m.dataKeyField.v)]

\* defaultDataKeyPicker: [thrown, key]
defaultDataKeyPicker(m, data) ==
    IF hasNoValue(m.dataKeyField) THEN [thrown |-> TRUE, key |-> Undefined]
    ELSE [thrown |-> FALSE, key |-> Field(data, m.dataKeyField.v)]

ThrowDataKey(m) == Call([m EXCEPT !.thrown = "dataKey"], [op |-> "throw", error |-> "dataKey"])

RECURSIVE DiscardNodes(_, _, _)
\* renderers.get(discardedKey).nodes.forEach(node => node.remove())
DiscardNodes(m, nodes, i) ==
    IF i > Len(nodes) THEN m
    ELSE DiscardNodes(Call([m EXCEPT !.kids = Without(@, nodes[i])],
                           [op |-> "remove", node |-> nodes[i]]),
                      nodes, i + 1)

RECURSIVE DiscardKeys(_, _)
DiscardKeys(m, discardedKeys) ==
    IF discardedKeys = {} THEN m
    ELSE Let(CHOOSE k \in discardedKeys : TRUE, LAMBDA discardedKey :
             DiscardKeys(
                 Call([DiscardNodes(m, m.rends[m.renderers[discardedKey]].nodes, 1)
                          EXCEPT !.renderers =
                              [k \in DOMAIN m.renderers \ {discardedKey} |-> m.renderers[k]]],
                      [op |-> "delete", key |-> discardedKey]),
                 discardedKeys \ {discardedKey}))

\* a removeExpiredData that leaves every registered renderer in place
removeExpiredDataKeepingAll(m) == m

\* ArrayContextElement.removeExpiredData
removeExpiredData(m) ==
    Let(m.dataSource.v, LAMBDA dataSource :
        IF dataSource # <<>> /\ defaultDataKeyPicker(m, dataSource[1]).thrown
        THEN ThrowDataKey(m)
        ELSE Let({defaultDataKeyPicker(m, dataSource[i]).key : i \in 1..Len(dataSource)},
                 LAMBDA dataSourceKeys :
                 DiscardKeys(m, {k \in DOMAIN m.renderers : k \notin dataSourceKeys})))

\* an itemRenderer that clones the template whether the key is registered or not
itemRendererAlwaysNew(m, dataKey) ==
    Let(CloneAndConstruct(m, dataKey), LAMBDA made :
        IF made.m.thrown # "" THEN made
        ELSE [m |-> [made.m EXCEPT !.renderers = (dataKey :> made.renderer.id) @@ @,
                                   !.rends = (made.renderer.id :> made.renderer) @@ @],
              renderer |-> made.renderer])

\* if (!renderers.has(dataKey)) { clone the template, new DataRenderer, set };
\* renderers.get(dataKey): [m, renderer]
itemRenderer(m, dataKey) ==
    IF dataKey \notin DOMAIN m.renderers
    THEN Let(CloneAndConstruct(m, dataKey), LAMBDA made :
             IF made.m.thrown # "" THEN made
             ELSE [m |-> [made.m EXCEPT !.renderers = (dataKey :> made.renderer.id) @@ @,
                                        !.rends = (made.renderer.id :> made.renderer) @@ @],
                   renderer |-> made.renderer])
    ELSE [m |-> m, renderer |-> m.rends[m.renderers[dataKey]]]

\* a dataGetter that reports the position in the reversed copy
dataGetterReversedIndex(data, dataKey, dpLength, index) ==
    [data |-> data, key |-> dataKey, index |-> index]

\* () => ({data, key: dataKey, index: (dpLength - index)})
dataGetter(data, dataKey, dpLength, index) ==
    [data |-> data, key |-> dataKey, index |-> dpLength - index]

\* the body of [...dataSource].reverse().forEach((data, index) => ...)
RenderItem(m, data, index, dpLength, anchorNode) ==
    Let(defaultDataKeyPicker(m, data), LAMBDA picked :
    IF picked.thrown THEN [m |-> ThrowDataKey(m), anchorNode |-> anchorNode]
    ELSE
    Let(picked.key, LAMBDA dataKey :
    Let(itemRenderer(m, dataKey), LAMBDA made :
    IF made.m.thrown # "" THEN [m |-> made.m, anchorNode |-> anchorNode]
    ELSE
    Let(made.renderer.id, LAMBDA c :
    Let(PlaceNodes(made.m, Reverse(made.renderer.nodes), 1, anchorNode), LAMBDA placed :
    Let(dataGetter(data, dataKey, dpLength, index), LAMBDA getter :
    Let(DataRendererRender(
            Call(placed.m, [op |-> "render", copy |-> c, snapshot |-> getter]),
            made.renderer, getter), LAMBDA rendered :
        [m |-> [rendered.m EXCEPT !.rends[c] = rendered.renderer],
         anchorNode |-> placed.anchorNode])))))))

RECURSIVE RenderItems(_, _, _, _, _)
RenderItems(m, reversed, index, dpLength, anchorNode) ==
    IF index >= Len(reversed) \/ m.thrown # "" THEN m
    ELSE Let(RenderItem(m, reversed[index + 1], index, dpLength, anchorNode), LAMBDA done :
             RenderItems(done.m, reversed, index + 1, dpLength, done.anchorNode))

\* dataSource.reverse() in place of [...dataSource].reverse(): the host's
\* array itself is reversed
reversedDataSourceInPlace(m) ==
    [m |-> [m EXCEPT !.dataSource = Arr(Reverse(@.v))], reversed |-> Reverse(m.dataSource.v)]

\* [...dataSource].reverse(): a reversed copy, the host's array is left alone
reversedDataSource(m) == [m |-> m, reversed |-> Reverse(m.dataSource.v)]

\* ArrayContextElement.render
ArrayContextElementRender(m) ==
    IF hasNoValue(m.dataSource) \/ hasNoValue(m.template) THEN m
    ELSE Let(removeExpiredData(m), LAMBDA m1 :
         IF m1.thrown # "" THEN m1
         ELSE
         Let(<<-1, FreeAnchor(m1)>>, LAMBDA anchor :
         Let(Len(m.dataSource.v) - 1, LAMBDA dpLength :
         Let(reversedDataSource(AppendAnchor(m1, anchor)), LAMBDA copied :
         Let(RenderItems(copied.m, copied.reversed, 0, dpLength, anchor), LAMBDA m3 :
             IF m3.thrown # "" THEN m3 ELSE RemoveLastChild(m3))))))

\* a render that empties the host when the data has no value
RenderClearingAbsent(m) ==
    IF hasNoValue(m.dataSource) /\ hasValue(m.template)
    THEN DiscardNodes(m, m.kids, 1)
    ELSE IF m.mode = "array" THEN ArrayContextElementRender(m)
    ELSE ContextElementRender(m)

\* this.render(): the render of the element's class
Render(m) == IF m.mode = "array" THEN ArrayContextElementRender(m)
             ELSE ContextElementRender(m)

\* ------------------------------------------------------------- environment
\* What the page supplies: the markup inside the host, the data values it
\* assigns, and the reducer it installs.

Keys == 1..NumKeys
States == {s_x, s_y}
NameOf(state) == IF state = s_x THEN s_A ELSE s_B
Item(k, state) ==
    Obj((s_id :> Num(k)) @@ (STATE_PROPERTY :> Str(state)) @@ (s_name :> Str(NameOf(state))))
Items == {Item(k, state) : k \in Keys, state \in States}
Arrays == UNION {[1..n -> Items] : n \in 0..MaxLen}
DataInputs(mode) == IF mode = "array" THEN {Null} \cup {Arr(q) : q \in Arrays}
                    ELSE {Null} \cup Items

\* <div class="base" class.x.toggle="hot" watch="name"></div>
\* <button name.x.watch="name" click.x.action="DEL" action="NEXT"
\*         dblclick.x.action="SWAP" focus.y.action="" focus.action="ADD">go</button>
Markup ==
    (<<0, 1>> :> Element(s_DIV,
                    <<Attr(s_class, s_base),
                      Attr(s_class \o s_dot \o s_x \o s_dot \o s_toggle, s_hot),
                      Attr(s_watch, s_name)>>, <<>>))
    @@ (<<0, 2>> :> Text(<<"\n", " ">>))
    @@ (<<0, 3>> :> Element(s_BUTTON,
                    <<Attr(s_name \o s_dot \o s_x \o s_dot \o s_watch, s_name),
                      Attr(s_click \o s_dot \o s_x \o s_dot \o s_action, s_DEL),
                      Attr(s_action, s_NEXT),
                      Attr(s_dblclick \o s_dot \o s_x \o s_dot \o s_action, s_SWAP),
                      Attr(s_focus \o s_dot \o s_y \o s_dot \o s_action, <<>>),
                      Attr(s_focus \o s_dot \o s_action, s_ADD)>>, <<<<0, 4>>>>))
    @@ (<<0, 4>> :> Text(<<"g", "o">>))
MarkupRoots == <<<<0, 1>>, <<0, 2>>, <<0, 3>>>>

s_title == <<"t", "i", "t", "l", "e">>
s_FORM == <<"F", "O", "R", "M">>

\* name = seg1.seg2. ... .segn
Dotted(segs) == Join(segs, s_dot)

\* The attribute lists of the one-element pages: every arity of the three
\* binding families, alone and next to a default value or a second binding.
WatchAttrs ==
    {<<Attr(s_watch, s_name)>>,
     <<Attr(s_x \o s_watch, s_name)>>,
     <<Attr(Dotted(<<s_title, s_watch>>), s_name)>>,
     <<Attr(Dotted(<<s_title, s_x, s_watch>>), s_name)>>,
     <<Attr(Dotted(<<s_title, s_x, s_y, s_watch>>), s_name)>>,
     <<Attr(Dotted(<<s_title, s_watch>>), s_id),
       Attr(Dotted(<<s_title, s_x, s_watch>>), s_name)>>}
ToggleAttrs ==
    {<<Attr(s_class, s_base), Attr(Dotted(<<s_class, s_x, s_toggle>>), s_hot)>>,
     <<Attr(Dotted(<<s_title, s_x, s_toggle>>), s_hot)>>,
     <<Attr(s_class, s_base), Attr(Dotted(<<s_class, STATE_GLOBAL, s_toggle>>), s_hot)>>,
     <<Attr(s_class, s_base), Attr(s_toggle, s_hot), Attr(s_action, s_NEXT)>>,
     <<Attr(s_class, s_base), Attr(Dotted(<<s_class, s_toggle>>), s_hot),
       Attr(s_action, s_NEXT)>>,
     <<Attr(s_class, s_base), Attr(Dotted(<<s_class, s_x, s_y, s_toggle>>), s_hot),
       Attr(s_action, s_NEXT)>>}
ActionAttrs ==
    {<<Attr(s_action, s_NEXT), Attr(Dotted(<<s_on \o s_click, s_action>>), s_NEXT)>>,
     <<Attr(Dotted(<<s_click, s_x, s_y, s_action>>), s_NEXT)>>}

\* <div ...attrs></div>
OneElement(attrs) ==
    [roots |-> <<<<0, 1>>>>, nodes |-> (<<0, 1>> :> Element(s_DIV, attrs, <<>>))]

\* <div submit.action="NEXT"><form submit.x.action="NEXT"></form></div>
FormPage ==
    [roots |-> <<<<0, 1>>>>,
     nodes |-> (<<0, 1>> :> Element(s_DIV, <<Attr(Dotted(<<s_submit, s_action>>), s_NEXT)>>,
                                    <<<<0, 2>>>>))
               @@ (<<0, 2>> :> Element(s_FORM,
                                    <<Attr(Dotted(<<s_submit, s_x, s_action>>), s_NEXT)>>,
                                    <<>>))]

\* the pages the grammar and the synchronizer are examined on
Pages == {OneElement(attrs) : attrs \in WatchAttrs \cup ToggleAttrs \cup ActionAttrs}
         \cup {FormPage}

s_go == <<"g", "o">>
s_value == <<"v", "a", "l", "u", "e">>
s_xtoggle == <<"x">> \o s_toggle

\* <div class="base" title.watch="x.y" class.x.toggle="hot" action="NEXT">
\*   <context-element data.watch="name"><div title.watch="name"></div></context-element>
\*   go
\*   <div><button name.watch="name"></button></div>
\* </div>
\* <context-array><div watch="name"></div></context-array>
NestedPage ==
    [roots |-> <<<<0, 1>>, <<0, 7>>, <<0, 8>>>>,
     nodes |->
        (<<0, 1>> :> Element(s_DIV,
                        <<Attr(s_class, s_base),
                          Attr(Dotted(<<s_title, s_watch>>), Dotted(<<s_x, s_y>>)),
                          Attr(Dotted(<<s_class, s_x, s_toggle>>), s_hot),
                          Attr(s_action, s_NEXT)>>,
                        <<<<0, 2>>, <<0, 4>>, <<0, 5>>>>))
        @@ (<<0, 2>> :> Element(ToUpperCase(CONTEXT_ELEMENT_TAG_NAME),
                        <<Attr(Dotted(<<s_data, s_watch>>), s_name)>>, <<<<0, 3>>>>))
        @@ (<<0, 3>> :> Element(s_DIV, <<Attr(Dotted(<<s_title, s_watch>>), s_name)>>, <<>>))
        @@ (<<0, 4>> :> Text(s_go))
        @@ (<<0, 5>> :> Element(s_DIV, <<>>, <<<<0, 6>>>>))
        @@ (<<0, 6>> :> Element(s_BUTTON, <<Attr(Dotted(<<s_name, s_watch>>), s_name)>>, <<>>))
        @@ (<<0, 7>> :> Text(<<"\n">>))
        @@ (<<0, 8>> :> Element(ToUpperCase(ARRAY_CONTEXT_ELEMENT_TAG_NAME), <<>>,
                                <<<<0, 9>>>>))
        @@ (<<0, 9>> :> Element(s_DIV, <<Attr(s_watch, s_name)>>, <<>>))]

\* The attribute lists of the binding pages. Two names of one element that
\* stand for the same coordinate, in both orders:
CollidingAttrs ==
    {<<Attr(s_watch, s_name), Attr(Dotted(<<s_content, s_watch>>), s_id)>>,
     <<Attr(Dotted(<<s_content, s_watch>>), s_id), Attr(s_watch, s_name)>>,
     <<Attr(s_action, s_NEXT), Attr(Dotted(<<s_click, STATE_GLOBAL, s_action>>), s_DEL)>>,
     <<Attr(Dotted(<<s_click, s_action>>), s_DEL), Attr(s_action, s_NEXT)>>,
     <<Attr(s_class, s_base), Attr(Dotted(<<s_class, s_x, s_toggle>>), s_hot),
       Attr(Dotted(<<s_class, s_x, s_xtoggle>>), s_x)>>,
     <<Attr(s_class, s_base), Attr(Dotted(<<s_class, s_x, s_xtoggle>>), s_x),
       Attr(Dotted(<<s_class, s_x, s_toggle>>), s_hot)>>}
\* a path that cannot be evaluated (data.x is undefined) next to bindings that
\* can, one that reads a property of a string, and one with an empty segment:
FailingAttrs ==
    {<<Attr(s_class, s_base), Attr(Dotted(<<s_title, s_watch>>), Dotted(<<s_x, s_y>>)),
       Attr(Dotted(<<s_name, s_watch>>), s_name),
       Attr(Dotted(<<s_class, s_x, s_toggle>>), s_hot), Attr(s_action, s_NEXT)>>,
     <<Attr(Dotted(<<s_title, s_watch>>), Dotted(<<s_name, s_x>>)),
       Attr(Dotted(<<s_name, s_watch>>), Dotted(<<s_name, <<>>>>))>>}
\* the reserved names, the content and a property:
ReservedAttrs ==
    {<<Attr(Dotted(<<s_data, s_watch>>), s_name), Attr(Dotted(<<s_reducer, s_watch>>), s_id),
       Attr(s_watch, s_name), Attr(Dotted(<<s_title, s_watch>>), s_name),
       Attr(Dotted(<<s_value, s_watch>>), s_name)>>}

s_watcher == s_watch \o <<"e", "r">>
s_data_action_id == s_data \o <<"-">> \o s_action \o <<"-">> \o s_id
s_toggled == s_toggle \o <<"d">>
\* names that contain a keyword and do not end with it, next to a default
\* value and two bindings, and alone:
UnboundAttrs ==
    {<<Attr(s_class, s_base), Attr(s_watcher, s_go), Attr(s_data_action_id, s_DEL),
       Attr(s_toggled, s_y), Attr(Dotted(<<s_title, s_watch>>), s_name),
       Attr(s_action, s_NEXT)>>,
     <<Attr(s_watcher, s_name)>>}

\* a binding under the global state next to one of another attribute under
\* state x, in both orders:
UnmergedAttrs ==
    {<<Attr(Dotted(<<s_title, s_watch>>), s_name), Attr(Dotted(<<s_name, s_x, s_watch>>), s_id)>>,
     <<Attr(Dotted(<<s_name, s_x, s_watch>>), s_id), Attr(Dotted(<<s_title, s_watch>>), s_name),
       Attr(Dotted(<<s_value, s_watch>>), s_name)>>}

\* <tag ...attrs></tag>
OneOf(tag, attrs) ==
    [roots |-> <<<<0, 1>>>>, nodes |-> (<<0, 1>> :> Element(tag, attrs, <<>>))]

\* the pages the scanner and the evaluator's construction are examined on
BindingPages ==
    {NestedPage}
    \cup {OneOf(s_DIV, attrs) : attrs \in CollidingAttrs \cup FailingAttrs \cup UnboundAttrs}
    \cup {OneOf(s_BUTTON, attrs) : attrs \in UnmergedAttrs}
    \cup {OneOf(tag, attrs) : tag \in {s_DIV, s_BUTTON, ToUpperCase(CONTEXT_ELEMENT_TAG_NAME)},
                              attrs \in ReservedAttrs}

EventTypes == {s_click, s_dblclick, s_focus, s_submit}
\* whether an event of the type travels from its target up to the ancestors
Bubbles(type) == type # s_focus

OtherState(state) == IF state = Str(s_x) THEN s_y ELSE s_x
NextItem(item) == Item(Field(item, s_id).v, OtherState(Field(item, STATE_PROPERTY)))
MissingKey(q) == IF \E k \in Keys : \A i \in 1..Len(q) : Field(q[i], s_id) # Num(k)
                 THEN CHOOSE k \in Keys : \A i \in 1..Len(q) : Field(q[i], s_id) # Num(k)
                 ELSE 1

\* The reducers a page may install. "identity" is the constructor's default;
\* "app" is a list application: DEL removes the action's item (clears single
\* data), NEXT moves the item to its other state, SWAP reverses the list, ADD
\* appends an item while there is room.
Reducers == {"identity", "app"}
ApplyReducer(reducer, data, action) ==
    IF reducer = "identity" \/ action.type.t # "str" \/ data.t \notin {"obj", "arr"} THEN data
    ELSE IF data.t = "obj"
    THEN CASE action.type.v = s_DEL -> Null
           [] action.type.v = s_NEXT -> NextItem(data)
           [] OTHER -> data
    ELSE CASE action.type.v = s_DEL /\ "key" \in DOMAIN action ->
                Arr(SelectSeq(data.v, LAMBDA it : Field(it, s_id) # action.key))
           [] action.type.v = s_NEXT /\ "key" \in DOMAIN action ->
                Arr([i \in 1..Len(data.v) |->
                        IF Field(data.v[i], s_id) = action.key
                        THEN NextItem(data.v[i]) ELSE data.v[i]])
           [] action.type.v = s_SWAP -> Arr(Reverse(data.v))
           [] action.type.v = s_ADD /\ Len(data.v) < MaxLen ->
                Arr(Append(data.v, Item(MissingKey(data.v), s_x)))
           [] OTHER -> data

\* ------------------------------------------------------- data flow of the host

\* A DataSetter: () => value for the data property, or the listener's
\* oldData => reducer(oldData, action)
ValueSetter(value) == [kind |-> "value", value |-> value]
ReducerSetter(reducer, action) == [kind |-> "reducer", reducer |-> reducer, action |-> action]
\* a CallSetter whose updater calls the reducer and returns oldData
CallSetterDroppingResult(m, context, oldData) ==
    IF context.kind = "value" THEN [m |-> m, value |-> context.value]
    ELSE Let(ApplyReducer(context.reducer, oldData, context.action), LAMBDA result :
             [m |-> Call(m, [op |-> "reducer", reducer |-> context.reducer, oldData |-> oldData,
                             action |-> context.action, result |-> result]),
              value |-> oldData])

CallSetter(m, context, oldData) ==
    IF context.kind = "value" THEN [m |-> m, value |-> context.value]
    ELSE Let(ApplyReducer(context.reducer, oldData, context.action), LAMBDA result :
             [m |-> Call(m, [op |-> "reducer", reducer |-> context.reducer, oldData |-> oldData,
                             action |-> context.action, result |-> result]),
              value |-> result])

\* a setData that renders before it stores what the setter returned
setDataRenderFirst(m, context) ==
    Let(CallSetter(m, context, m.dataSource), LAMBDA called :
    Let(Render(called.m), LAMBDA rendered :
        Call([rendered EXCEPT !.dataSource = called.value],
             [op |-> "setData", value |-> called.value])))

\* ContextElement.setData(context)
setData(m, context) ==
    Let(CallSetter(m, context, m.dataSource), LAMBDA called :
        Render(Call([called.m EXCEPT !.dataSource = called.value],
                    [op |-> "setData", value |-> called.value])))

\* an updateDataCallback that calls dataChanged before setData
updateDataCallbackHookFirst(m, dataSetter) ==
    setData(IF m.hook THEN Call(m, [op |-> "dataChanged", value |-> m.dataSource]) ELSE m,
            dataSetter)

\* ContextElement.updateDataCallback(dataSetter)
updateDataCallback(m, dataSetter) ==
    Let(setData(m, dataSetter), LAMBDA m1 :
        IF m1.thrown # "" THEN m1
        ELSE IF m1.hook THEN Call(m1, [op |-> "dataChanged", value |-> m1.dataSource])
        ELSE m1)

\* stateAction.get(dataState) || stateAction.get(STATE_GLOBAL)
ActionType(stateAction, dataState) ==
    IF MapHasVal(stateAction, dataState) /\ MapGet(stateAction, dataState.v) # <<>>
    THEN Str(MapGet(stateAction, dataState.v))
    ELSE IF MapHas(stateAction, STATE_GLOBAL) THEN Str(MapGet(stateAction, STATE_GLOBAL))
    ELSE Undefined

\* the Action a listener hands to the reducer
BuildAction(type, event, dataGetterValue) ==
    IF "key" \in DOMAIN dataGetterValue
    THEN [type |-> type, event |-> event, data |-> dataGetterValue.data,
          key |-> dataGetterValue.key, index |-> dataGetterValue.index]
    ELSE [type |-> type, event |-> event]

\* a submitSuppression that only prevents the default action
submitSuppressionDefaultOnly(m, event) ==
    IF event.type = s_submit THEN Call(m, [op |-> "preventDefault"]) ELSE m

\* if (event.type === 'submit') { event.preventDefault();
\* event.stopImmediatePropagation(); event.stopPropagation(); }
submitSuppression(m, event) ==
    IF event.type = s_submit
    THEN Call(Call(Call([m EXCEPT !.stopped = TRUE],
                        [op |-> "preventDefault"]),
                   [op |-> "stopImmediatePropagation"]),
              [op |-> "stopPropagation"])
    ELSE m

\* a listener that calls the reducer the host has when the event arrives
ListenerHostReducer(m, listener, event) ==
    Let(submitSuppression(m, event), LAMBDA m0 :
    Let(m0.rends[listener.renderer], LAMBDA renderer :
    Let(renderer.dataGetter, LAMBDA dataGetterValue :
    IF dataGetterValue = NoGetter
    THEN Call([m0 EXCEPT !.thrown = "type"], [op |-> "throw", error |-> "type"])
    ELSE
    Let(Field(dataGetterValue.data, STATE_PROPERTY), LAMBDA dataState :
    Let(listener.stateAction, LAMBDA stateAction :
        IF MapHasVal(stateAction, dataState) \/ MapHas(stateAction, STATE_GLOBAL)
        THEN updateDataCallback(
                 Call(m0, [op |-> "listener", node |-> event.target,
                           snapshot |-> dataGetterValue]),
                 ReducerSetter(m0.reducer,
                     BuildAction(ActionType(stateAction, dataState), event,
                                 dataGetterValue)))
        ELSE Call(m0, [op |-> "ignored", node |-> event.target,
                       snapshot |-> dataGetterValue]))))))

\* the listener initEventListener attaches, run for one event
Listener(m, listener, event) ==
    Let(submitSuppression(m, event), LAMBDA m0 :
    Let(m0.rends[listener.renderer], LAMBDA renderer :
    Let(renderer.dataGetter, LAMBDA dataGetterValue :
    IF dataGetterValue = NoGetter
    THEN Call([m0 EXCEPT !.thrown = "type"], [op |-> "throw", error |-> "type"])
    ELSE
    Let(Field(dataGetterValue.data, STATE_PROPERTY), LAMBDA dataState :
    Let(listener.stateAction, LAMBDA stateAction :
        IF MapHasVal(stateAction, dataState) \/ MapHas(stateAction, STATE_GLOBAL)
        THEN updateDataCallback(
                 Call(m0, [op |-> "listener", node |-> event.target,
                           snapshot |-> dataGetterValue]),
                 ReducerSetter(renderer.reducer,
                     BuildAction(ActionType(stateAction, dataState), event,
                                 dataGetterValue)))
        ELSE Call(m0, [op |-> "ignored", node |-> event.target,
                       snapshot |-> dataGetterValue]))))))

\* the node whose child list holds n (<<0, 0>> when none does)
ParentOf(store, n) ==
    IF \E p \in DOMAIN store : IndexIn(store[p].kids, n) > 0
    THEN CHOOSE p \in DOMAIN store : IndexIn(store[p].kids, n) > 0
    ELSE NoNode

RECURSIVE EventPath(_, _, _)
\* the target followed by its ancestors inside the host
EventPath(store, n, bubbles) ==
    IF n = NoNode THEN <<>>
    ELSE <<n>> \o (IF bubbles THEN EventPath(store, ParentOf(store, n), bubbles) ELSE <<>>)

RECURSIVE ListenersOn(_, _, _)
\* the listeners for the event type along the path, in invocation order
ListenersOn(store, path, type) ==
    IF path = <<>> THEN <<>>
    ELSE SelectSeq(store[path[1]].listeners, LAMBDA l : l.event = type)
         \o ListenersOn(store, Tail(path), type)

RECURSIVE RunListeners(_, _, _, _)
\* the browser invokes the listeners in turn; an exception thrown by one is
\* reported and does not keep the next from running, stopImmediatePropagation does
RunListeners(m, listeners, i, event) ==
    IF i > Len(listeners) \/ m.stopped THEN m
    ELSE Let(Listener([m EXCEPT !.thrown = ""], listeners[i], event), LAMBDA m1 :
             RunListeners([m1 EXCEPT !.thrown = IF m1.thrown # "" THEN m1.thrown ELSE m.thrown],
                          listeners, i + 1, event))

\* a native event of the type on the target node
DispatchEvent(m, target, type) ==
    RunListeners(m, ListenersOn(m.nodes, EventPath(m.nodes, target, Bubbles(type)), type),
                 1, [type |-> type, target |-> target])

\* ArrayContextElement.initAttribute: this.dataKeyField = this.getAttribute('data.key');
\* the attribute holds what attributeChangedCallback last reported
initAttribute(m) ==
    IF m.mode = "array"
    THEN [m EXCEPT !.dataKeyField = IF m.dataKeyField.t = "str" THEN m.dataKeyField ELSE Null]
    ELSE m

\* ContextElement.populateTemplate
populateTemplate(m) ==
    [m EXCEPT !.template = Arr(SelectSeq(m.kids, LAMBDA n : noEmptyTextNode(m.nodes[n]))),
              !.kids = <<>>]

\* a connectedCallback that captures the template and renders at once
connectedCallbackEager(m) ==
    Let(initAttribute(m), LAMBDA m1 :
        IF hasNoValue(m1.template)
        THEN Render(Call(populateTemplate(m1), [op |-> "populateTemplate"]))
        ELSE m1)

\* ContextElement.connectedCallback
connectedCallback(m) ==
    Let(initAttribute(m), LAMBDA m1 :
        IF hasNoValue(m1.template)
        THEN Call([m1 EXCEPT !.hidden = TRUE, !.frames = @ + 1],
                  [op |-> "requestAnimationFrame"])
        ELSE m1)

\* requestAnimationFrameCallback of connectedCallback
requestAnimationFrameCallback(m) ==
    Let(Call([populateTemplate(m) EXCEPT !.frames = @ - 1], [op |-> "populateTemplate"]),
        LAMBDA m1 :
    Let(Render(Call([m1 EXCEPT !.hidden = FALSE], [op |-> "unhide"])), LAMBDA m2 :
        IF m2.thrown # "" THEN m2
        ELSE IF m2.onMountedCallback
        THEN Call([m2 EXCEPT !.onMountedCallback = FALSE], [op |-> "onMounted"])
        ELSE m2))

\* ArrayContextElement.attributeChangedCallback for data.key
attributeChangedCallback(m, newValue) == [m EXCEPT !.dataKeyField = newValue]

\* ------------------------------------------------------------ state machine

VARIABLES
    mode,               \* "single": context-element, "array": context-array
    dataSource,         \* ContextElement.dataSource
    template,           \* ContextElement.template: null or the captured nodes
    renderer,           \* ContextElement.renderer (0 for null)
    renderers,          \* ArrayContextElement.renderers: key -> renderer
    rends,              \* the DataRenderer objects
    reducer,            \* ContextElement.reducer
    dataKeyField,       \* ArrayContextElement.dataKeyField
    kids,               \* the host's child nodes, in order
    nodes,              \* the nodes the host, the template or a renderer holds
    hook,               \* whether the host has a dataChanged method
    hidden,             \* whether the host carries HIDE_CLASS
    frames,             \* animation-frame callbacks requested and not yet run
    onMountedCallback,  \* whether a callback is registered with onMounted
    isConnected,        \* Node.isConnected of the host
    last                \* what the last handler did (a summary of its calls)

vars == <<mode, dataSource, template, renderer, renderers, rends, reducer, dataKeyField,
          kids, nodes, hook, hidden, frames, onMountedCallback, isConnected, last>>

\* the host at the start of a handler
Machine ==
    [mode |-> mode, dataSource |-> dataSource, template |-> template,
     renderer |-> renderer, renderers |-> renderers, rends |-> rends,
     reducer |-> reducer, dataKeyField |-> dataKeyField, kids |-> kids, nodes |-> nodes,
     hook |-> hook, hidden |-> hidden, frames |-> frames,
     onMountedCallback |-> onMountedCallback, isConnected |-> isConnected,
     thrown |-> "", stopped |-> FALSE, trace |-> <<>>]

Count(trace, op) == Cardinality({i \in 1..Len(trace) : trace[i].op = op})
Has(trace, op) == \E i \in 1..Len(trace) : trace[i].op = op

\* the summary of a handler kept in `last`
Summary(name, m) ==
    [op |-> name, thrown |-> m.thrown,
     evicted |-> Has(m.trace, "delete"), cloned |-> Has(m.trace, "clone"),
     moved |-> Has(m.trace, "insertBefore"), rendered |-> Has(m.trace, "render"),
     reducers |-> Count(m.trace, "reducer"), hooks |-> Count(m.trace, "dataChanged"),
     ignored |-> Has(m.trace, "ignored"), written |-> Has(m.trace, "setAttribute"),
     suppressed |-> Has(m.trace, "preventDefault")]

\* the renderers and nodes something still refers to once the handler returned
LiveRenderers(m) == (IF m.renderer = 0 THEN {} ELSE {m.renderer})
                    \cup {m.renderers[k] : k \in DOMAIN m.renderers}
SeqSet(q) == {q[i] : i \in 1..Len(q)}
LiveNodes(m) ==
    SeqSet(Subtree(m.nodes, m.kids))
    \cup (IF m.template.t = "arr" THEN SeqSet(Subtree(m.nodes, m.template.v)) ELSE {})
    \cup UNION {SeqSet(Subtree(m.nodes, m.rends[c].nodes)) : c \in LiveRenderers(m)}
    \cup UNION {UNION {SeqSet(Subtree(m.nodes, <<m.rends[c].attributeEvaluators[i].activeNode>>)) :
                          i \in 1..Len(m.rends[c].attributeEvaluators)} : c \in LiveRenderers(m)}

RECURSIVE Distinct(_)
\* a sequence without the later occurrences of its elements
Distinct(q) == IF q = <<>> THEN <<>>
               ELSE <<q[1]>> \o Distinct(SelectSeq(Tail(q), LAMBDA e : e # q[1]))

RECURSIVE Ascending(_)
Ascending(set) == IF set = {} THEN <<>>
                  ELSE LET least == CHOOSE a \in set : \A b \in set : a <= b
                       IN <<least>> \o Ascending(set \ {least})

\* Object identity carries no order: once a handler has returned, the template
\* copies still alive are renumbered 1, 2, ... in the order they appear among
\* the host's children (the others after them), so that states that differ only
\* in the numbers the copies received are one state.
CopyOrder(m) ==
    Let(Subtree(m.nodes, m.kids), LAMBDA attached :
    Let(Distinct(SelectSeq([i \in 1..Len(attached) |-> attached[i][1]], LAMBDA c : c >= 1)),
        LAMBDA first :
        first \o Ascending({c \in {n[1] : n \in LiveNodes(m)} \cup LiveRenderers(m) :
                               c >= 1 /\ IndexIn(first, c) = 0})))

RenameCopy(order, c) == IF c >= 1 THEN IndexIn(order, c) ELSE c
RenameNode(order, n) == <<RenameCopy(order, n[1]), n[2]>>
RenameNodes(order, q) == [i \in 1..Len(q) |-> RenameNode(order, q[i])]
RenameRenderer(order, r) ==
    [r EXCEPT !.id = RenameCopy(order, @),
              !.nodes = RenameNodes(order, @),
              !.attributeEvaluators =
                  [i \in 1..Len(@) |-> [@[i] EXCEPT !.activeNode = RenameNode(order, @)]]]
RenameElement(order, node) ==
    [node EXCEPT !.kids = RenameNodes(order, @),
                 !.listeners = [i \in 1..Len(@) |->
                                   [@[i] EXCEPT !.renderer = RenameCopy(order, @)]]]

\* the state a handler leaves: what it computed, without the unreachable objects
Becomes(name, m) ==
    \E order \in {CopyOrder(m)} :
    LET old(c) == order[c]
        oldNode(n) == IF n[1] >= 1 THEN <<order[n[1]], n[2]>> ELSE n
    IN
    /\ mode' = m.mode
    /\ dataSource' = m.dataSource
    /\ template' = IF m.template.t = "arr" THEN Arr(RenameNodes(order, m.template.v))
                   ELSE m.template
    /\ renderer' = RenameCopy(order, m.renderer)
    /\ renderers' = [k \in DOMAIN m.renderers |-> RenameCopy(order, m.renderers[k])]
    /\ rends' = [c \in {RenameCopy(order, b) : b \in LiveRenderers(m)} |->
                    RenameRenderer(order, m.rends[old(c)])]
    /\ reducer' = m.reducer
    /\ dataKeyField' = m.dataKeyField
    /\ kids' = RenameNodes(order, m.kids)
    /\ nodes' = [n \in {RenameNode(order, b) : b \in LiveNodes(m)} |->
                    RenameElement(order, m.nodes[oldNode(n)])]
    /\ hook' = m.hook
    /\ hidden' = m.hidden
    /\ frames' = m.frames
    /\ onMountedCallback' = m.onMountedCallback
    /\ isConnected' = m.isConnected
    /\ last' = Summary(name, m)

NoKeys == [k \in {} |-> 0]

\* the element as its constructor leaves it, holding the page's markup; the
\* page has set the data.key attribute or not, defined dataChanged or not, and
\* installed a reducer or kept the constructor's
ConstructedOn(page) ==
    /\ mode \in {"single", "array"}
    /\ dataSource = Undefined
    /\ template = Null
    /\ renderer = 0
    /\ renderers = NoKeys
    /\ rends = NoKeys
    /\ reducer \in Reducers
    /\ dataKeyField \in (IF mode = "array" THEN {Undefined, Str(s_id)} ELSE {Undefined})
    /\ kids = page.roots
    /\ nodes = page.nodes
    /\ hook \in BOOLEAN
    /\ hidden = FALSE
    /\ frames = 0
    /\ onMountedCallback = FALSE
    /\ isConnected = FALSE
    /\ last = Summary("constructor", Machine)

\* the element on the page of the examples
Constructed == ConstructedOn([roots |-> MarkupRoots, nodes |-> Markup])

\* the element is attached to the document
Connect ==
    /\ ~isConnected
    /\ hasNoValue(template) => frames < MaxFrames
    /\ Becomes("connectedCallback", connectedCallback([Machine EXCEPT !.isConnected = TRUE]))

\* the element is attached to the document, once
ConnectOnce ==
    /\ hasNoValue(template) /\ frames = 0
    /\ Becomes("connectedCallback", connectedCallback([Machine EXCEPT !.isConnected = TRUE]))

\* the element is removed from the document; the class has no
\* disconnectedCallback and a requested frame is not cancelled
Disconnect ==
    /\ isConnected
    /\ Becomes("disconnected", [Machine EXCEPT !.isConnected = FALSE])

\* the browser runs a requested animation-frame callback
Frame ==
    /\ frames > 0
    /\ Becomes("frame", requestAnimationFrameCallback(Machine))

\* the page assigns element.data = value
SetData ==
    \E value \in DataInputs(mode) :
        Becomes("data", setData(Machine, ValueSetter(value)))

\* the page assigns element.reducer = r
SetReducer ==
    \E r \in Reducers :
        /\ r # reducer
        /\ Becomes("reducer", [Machine EXCEPT !.reducer = r])

\* the page registers element.onMounted(callback)
OnMounted ==
    /\ ~onMountedCallback
    /\ Becomes("onMounted", [Machine EXCEPT !.onMountedCallback = TRUE])

\* the data.key attribute of context-array is set or removed
AttributeChanged ==
    \E newValue \in {Null, Str(s_id)} :
        /\ mode = "array"
        /\ newValue # dataKeyField
        /\ Becomes("attributeChanged", attributeChangedCallback(Machine, newValue))

\* the elements of the host's subtree an event can be fired on
Targets == {n \in SeqSet(Subtree(nodes, kids)) : nodes[n].kind = "el"}

\* the user fires an event on a rendered element that has a listener for it
Event ==
    \E target \in Targets, type \in EventTypes :
        /\ ListenersOn(nodes, EventPath(nodes, target, Bubbles(type)), type) # <<>>
        /\ Becomes("event", DispatchEvent(Machine, target, type))

\* The engine in both modes on a page that installed the list reducer and
\* declared data.key before attaching the element, and attaches it once.
Init ==
    /\ Constructed
    /\ reducer = "app"
    /\ mode = "array" => dataKeyField = Str(s_id)

Next == ConnectOnce \/ Frame \/ SetData \/ Event

Spec == Init /\ [][Next]_vars

\* context-array on a page that also sets and removes the data.key attribute
InitKey ==
    /\ Constructed
    /\ mode = "array"
    /\ reducer = "app"
    /\ ~hook

NextKey == ConnectOnce \/ Frame \/ SetData \/ Event \/ AttributeChanged

SpecKey == InitKey /\ [][NextKey]_vars

\* the <template> anchors left among the host's children
Anchors == Cardinality({i \in 1..Len(kids) : kids[i][1] = -1})

\* Both modes on the one-element pages and the form page. A render pass of
\* context-array that throws leaves its anchor behind, so the page is followed
\* until MaxAnchors of them have piled up.
InitPage ==
    /\ \E page \in Pages : ConstructedOn(page)
    /\ reducer = "app"
    /\ mode = "array" => dataKeyField = Str(s_id)
    /\ ~hook

NextPage == Anchors < MaxAnchors /\ (ConnectOnce \/ Frame \/ SetData \/ Event)

SpecPage == InitPage /\ [][NextPage]_vars

\* The element of the examples attached, detached and attached again, with
\* data assigned and a mounted callback registered at any moment; the page of
\* context-array declared data.key or forgot it.
InitMount ==
    /\ Constructed
    /\ reducer = "app"
    /\ ~hook

\* the values the page of InitMount assigns: nothing, one item, or a list of
\* at most one item
MountInputs(m) ==
    IF m = "array" THEN {Null, Arr(<<>>)} \cup {Arr(<<item>>) : item \in Items}
    ELSE {Null} \cup Items

\* the page assigns element.data = value, before or after the mount
SetItem ==
    \E value \in MountInputs(mode) :
        Becomes("data", setData(Machine, ValueSetter(value)))

NextMount == Connect \/ Disconnect \/ Frame \/ SetItem \/ OnMounted

SpecMount == InitMount /\ [][NextMount]_vars

\* Both modes on the binding pages, attached once.
InitBind ==
    /\ \E page \in BindingPages : ConstructedOn(page)
    /\ reducer = "app"
    /\ mode = "array" => dataKeyField = Str(s_id)
    /\ ~hook

NextBind == ConnectOnce \/ Frame \/ SetItem \/ Event

SpecBind == InitBind /\ [][NextBind]_vars

\* context-array with data.key declared, handed arrays long enough to hold a
\* key twice with another key before, between or after.
InitRepeat ==
    /\ Constructed
    /\ mode = "array"
    /\ dataKeyField = Str(s_id)
    /\ reducer = "app"
    /\ ~hook

\* the items of the page of InitRepeat: the first key in both states, so that
\* two items with that key differ, and every other key in one state
RepeatItems ==
    {item \in Items : Field(item, s_id) = Num(1) \/ Field(item, STATE_PROPERTY) = Str(s_x)}

\* the values the page of InitRepeat assigns
RepeatInputs ==
    {Null} \cup {Arr(q) : q \in UNION {[1..n -> RepeatItems] : n \in 0..MaxRepeat}}

\* the page assigns element.data = value
SetRepeated ==
    \E value \in RepeatInputs :
        Becomes("data", setData(Machine, ValueSetter(value)))

NextRepeat == ConnectOnce \/ Frame \/ SetRepeated

SpecRepeat == InitRepeat /\ [][NextRepeat]_vars

\* Both modes on a page that installs another reducer at any moment, before
\* or after renderers were constructed.
InitReducer ==
    /\ Constructed
    /\ mode = "array" => dataKeyField = Str(s_id)
    /\ ~hook

NextReducer == ConnectOnce \/ Frame \/ SetData \/ SetReducer \/ Event

SpecReducer == InitReducer /\ [][NextReducer]_vars

\* -------------------------------------------------------------- properties
\* A property about a handler is stated on the handler applied to the current
\* state: the host before (Machine), the host after, and the calls in between.

\* the keys the default extractor reads from the items of an array value
KeysOf(value) == {Field(value.v[i], dataKeyField.v) : i \in 1..Len(value.v)}

\* the page assigns element.data = value now
Assigned(value) == setData(Machine, ValueSetter(value))

\* the handler ran a render pass to its end
PassCompleted(r) == hasValue(r.dataSource) /\ hasValue(r.template) /\ r.thrown = ""

\* C1 (eviction): when a render pass of context-array completes, every key
\* that was registered and is absent from the current data has lost its registry
\* entry and none of its renderer's root nodes is a child of the host any more,
\* and the registry's keys are exactly the keys of the current data (none for
\* an empty array).
C1_Eviction ==
    mode = "array" =>
        \A value \in DataInputs(mode) : \A r \in {Assigned(value)} :
            PassCompleted(r) =>
                /\ DOMAIN r.renderers = KeysOf(value)
                /\ \A k \in DOMAIN renderers \ KeysOf(value) :
                      /\ k \notin DOMAIN r.renderers
                      /\ SeqSet(rends[renderers[k]].nodes) \cap SeqSet(r.kids) = {}

\* a completed pass evicted a renderer and kept or created another
C1_Witness ==
    /\ mode = "array" /\ last.op = "data" /\ last.thrown = ""
    /\ last.evicted /\ renderers # NoKeys

\* the entries of a handler's calls that are calls of op, in order
Calls(r, op) == SelectSeq(r.trace, LAMBDA e : e.op = op)

\* the keys of an array value are pairwise distinct
DistinctKeys(value) ==
    \A i, j \in 1..Len(value.v) :
        i # j => Field(value.v[i], dataKeyField.v) # Field(value.v[j], dataKeyField.v)

RECURSIVE Flatten(_)
\* the concatenation of a sequence of sequences
Flatten(qq) == IF qq = <<>> THEN <<>> ELSE qq[1] \o Flatten(Tail(qq))

\* C2 (stable identity): when a render pass of context-array completes, no
\* two keys of the registry share a renderer or a root node; a key that was
\* registered when the pass began and is in the current data keeps the same
\* renderer with the same root nodes; and every clone of the template in the
\* pass is for a key of the data that was not registered when the pass began,
\* at most one clone per key.
C2_StableIdentity ==
    mode = "array" =>
        \A value \in DataInputs(mode) : \A r \in {Assigned(value)} :
            PassCompleted(r) =>
                /\ \A k1, k2 \in DOMAIN r.renderers :
                      k1 # k2 =>
                          /\ r.renderers[k1] # r.renderers[k2]
                          /\ SeqSet(r.rends[r.renderers[k1]].nodes)
                                 \cap SeqSet(r.rends[r.renderers[k2]].nodes) = {}
                /\ \A k \in DOMAIN renderers \cap KeysOf(value) :
                      /\ r.renderers[k] = renderers[k]
                      /\ r.rends[r.renderers[k]].nodes = rends[renderers[k]].nodes
                /\ \A i \in 1..Len(Calls(r, "clone")) :
                      /\ Calls(r, "clone")[i].key \in KeysOf(value) \ DOMAIN renderers
                      /\ \A j \in 1..Len(Calls(r, "clone")) :
                            Calls(r, "clone")[j].key = Calls(r, "clone")[i].key => j = i

\* a completed pass over two items moved nodes and cloned nothing: both keys
\* were served by the renderers they had
C2_Witness ==
    /\ mode = "array" /\ last.op = "data" /\ last.thrown = ""
    /\ last.moved /\ ~last.cloned /\ ~last.evicted
    /\ Cardinality(DOMAIN renderers) = 2

\* C3 (order): when a render pass of context-array over data with pairwise
\* distinct keys completes, the host's children are the root nodes of item 0's
\* renderer, then those of item 1's, and so on in forward data order, and the
\* root nodes of each renderer are the copies of the template's nodes (told
\* apart by their tags) in template order.
C3_ForwardOrder ==
    mode = "array" =>
        \A value \in DataInputs(mode) : \A r \in {Assigned(value)} :
            (PassCompleted(r) /\ DistinctKeys(value)) =>
                /\ r.kids = Flatten([i \in 1..Len(value.v) |->
                                r.rends[r.renderers[Field(value.v[i], dataKeyField.v)]].nodes])
                /\ \A k \in DOMAIN r.renderers :
                      [j \in 1..Len(r.rends[r.renderers[k]].nodes) |->
                           r.nodes[r.rends[r.renderers[k]].nodes[j]].tag]
                      = [j \in 1..Len(r.template.v) |-> r.nodes[r.template.v[j]].tag]

\* a completed pass moved the nodes of two items that were already rendered:
\* the data came in another order than the children were in
C3_Witness ==
    /\ mode = "array" /\ last.op = "data" /\ last.thrown = ""
    /\ last.moved /\ ~last.cloned
    /\ Len(dataSource.v) = 2 /\ Len(kids) = 4
    /\ Field(dataSource.v[1], s_id) # Field(dataSource.v[2], s_id)

\* C4 (index): in a render pass of context-array that completes, the j-th
\* renderer rendered is handed {data, key, index} of the item j-th from the
\* end of the data, index being that item's 0-based position in the data, and
\* that snapshot is what the renderer's getter returns afterwards when the
\* keys are distinct.
C4_Index ==
    mode = "array" =>
        \A value \in DataInputs(mode) : \A r \in {Assigned(value)} :
            PassCompleted(r) =>
                /\ Len(Calls(r, "render")) = Len(value.v)
                /\ \A j \in 1..Len(value.v) :
                      \A p \in {Len(value.v) + 1 - j} :
                          /\ Calls(r, "render")[j].snapshot =
                                 [data |-> value.v[p],
                                  key |-> Field(value.v[p], dataKeyField.v),
                                  index |-> p - 1]
                          /\ Calls(r, "render")[j].copy =
                                 r.renderers[Field(value.v[p], dataKeyField.v)]
                          /\ DistinctKeys(value) =>
                                 r.rends[Calls(r, "render")[j].copy].dataGetter =
                                     Calls(r, "render")[j].snapshot

\* after a pass over one item, the item that was second before is at index 0
C4_Witness ==
    /\ mode = "array" /\ last.op = "data" /\ last.thrown = "" /\ last.evicted
    /\ Len(dataSource.v) = 1
    /\ rends[renderers[Field(dataSource.v[1], s_id)]].dataGetter.index = 0
    /\ ~last.cloned

\* the calls of a handler that insert, clone, move, remove or change the registry
Effects == {"append", "clone", "insertBefore", "remove", "delete", "removeLast", "render"}

\* C5 (missing key field): with no data.key declared, a render pass of
\* context-array over a non-empty array throws the configuration error and
\* has by then inserted no anchor, cloned nothing, moved or removed no node
\* and left the registry as it was; a pass over the empty array does not throw.
C5_MissingKey ==
    (mode = "array" /\ hasNoValue(dataKeyField) /\ hasValue(template)) =>
        \A value \in DataInputs(mode) \ {Null} : \A r \in {Assigned(value)} :
            IF value.v # <<>>
            THEN /\ r.thrown = "dataKey"
                 /\ \A i \in 1..Len(r.trace) : r.trace[i].op \notin Effects
                 /\ r.kids = kids /\ r.nodes = nodes
                 /\ r.renderers = renderers /\ r.rends = rends
            ELSE r.thrown = ""

\* the data.key attribute is gone while renderers are registered, and the
\* last assignment of data threw the configuration error
C5_Witness ==
    /\ mode = "array" /\ hasNoValue(dataKeyField) /\ hasValue(template)
    /\ last.op = "data" /\ last.thrown = "dataKey"
    /\ renderers # NoKeys /\ kids # <<>>

\* ---------------------------------------------------- properties of dispatch

\* the listeners an event of the type on the target reaches, in order
Reached(target, type) ==
    ListenersOn(nodes, EventPath(nodes, target, Bubbles(type)), type)

\* the events that reach exactly one listener
Firings == {f \in Targets \X EventTypes : Len(Reached(f[1], f[2])) = 1}

\* the user fires the event now
Dispatched(f) == DispatchEvent(Machine, f[1], f[2])

\* the positions of a handler's calls that are calls of op
At(r, op) == {i \in 1..Len(r.trace) : r.trace[i].op = op}

\* the state field of the snapshot the renderer of a listener returns now
StateNow(listener) == Field(rends[listener.renderer].dataGetter.data, STATE_PROPERTY)

\* C6 (action lookup), as claimed: a listener selects the type registered for
\* its event under exactly the snapshot's state, otherwise the one under '*';
\* when one exists the reducer is called exactly once with it, and when
\* neither exists neither the reducer nor the update callback is called and
\* nothing is thrown.
C6_ActionLookup ==
    \A f \in Firings : \A r \in {Dispatched(f)} : \A listener \in {Reached(f[1], f[2])[1]} :
        IF MapHasVal(listener.stateAction, StateNow(listener))
        THEN /\ Len(Calls(r, "reducer")) = 1
             /\ Calls(r, "reducer")[1].action.type
                    = Str(MapGet(listener.stateAction, StateNow(listener).v))
        ELSE IF MapHas(listener.stateAction, STATE_GLOBAL)
        THEN /\ Len(Calls(r, "reducer")) = 1
             /\ Calls(r, "reducer")[1].action.type
                    = Str(MapGet(listener.stateAction, STATE_GLOBAL))
        ELSE /\ Calls(r, "reducer") = <<>> /\ Calls(r, "setData") = <<>>
             /\ Calls(r, "dataChanged") = <<>> /\ r.thrown = ""

\* the host's data when call i of a handler is made
DataAt(r, i) ==
    IF \E j \in At(r, "setData") : j < i
    THEN r.trace[CHOOSE j \in At(r, "setData") :
                     j < i /\ \A q \in At(r, "setData") : q < i => q <= j].value
    ELSE dataSource

\* C7 (reducer data flow): every reducer call a listener makes receives the
\* host's data as it is at that moment (the whole array in context-array) and
\* what it returns is stored as the host's data by the next call; the item
\* of the node travels in the action (data, key, index) in context-array only.
C7_ReducerDataFlow ==
    \A f \in Firings : \A r \in {Dispatched(f)} : \A listener \in {Reached(f[1], f[2])[1]} :
        \A i \in At(r, "reducer") :
            /\ r.trace[i].oldData = DataAt(r, i)
            /\ i < Len(r.trace) /\ r.trace[i + 1].op = "setData"
            /\ r.trace[i + 1].value = r.trace[i].result
            /\ i = CHOOSE j \in At(r, "reducer") : \A q \in At(r, "reducer") : q <= j
                  => r.dataSource = r.trace[i].result
            /\ IF mode = "array"
               THEN /\ r.trace[i].action.data = rends[listener.renderer].dataGetter.data
                    /\ r.trace[i].action.key = rends[listener.renderer].dataGetter.key
                    /\ r.trace[i].action.index = rends[listener.renderer].dataGetter.index
               ELSE DOMAIN r.trace[i].action = {"type", "event"}

\* a listener of a two-item context-array replaced the host's array
C7_Witness ==
    /\ mode = "array" /\ last.op = "event" /\ last.reducers = 1
    /\ hasValue(dataSource) /\ Len(dataSource.v) = 2 /\ last.rendered

\* C8 (synchronous re-render): after a listener's reducer call every read of
\* a snapshot in the same handler is a read of the data the reducer returned
\* (in context-array the item of it at the snapshot's index, with the
\* snapshot's key), and when the pass for it completes with the key of the
\* listener's renderer still present (always, in context-element), each
\* evaluator of that renderer has made such a read before the handler returns.
C8_SynchronousRender ==
    \A f \in Firings : \A r \in {Dispatched(f)} : \A listener \in {Reached(f[1], f[2])[1]} :
        \A i \in At(r, "reducer") :
            /\ \A q \in At(r, "read") :
                  q > i =>
                      IF mode = "array"
                      THEN /\ r.trace[q].snapshot.index + 1 \in 1..Len(r.trace[i].result.v)
                           /\ r.trace[q].snapshot.data
                                  = r.trace[i].result.v[r.trace[q].snapshot.index + 1]
                           /\ r.trace[q].snapshot.key
                                  = Field(r.trace[q].snapshot.data, dataKeyField.v)
                      ELSE r.trace[q].snapshot.data = r.trace[i].result
            /\ (/\ PassCompleted(r)
                /\ mode = "array" =>
                       rends[listener.renderer].dataGetter.key \in KeysOf(r.trace[i].result))
               => \A e \in 1..Len(rends[listener.renderer].attributeEvaluators) :
                      \E q \in At(r, "read") :
                          /\ q > i
                          /\ r.trace[q].node
                                 = rends[listener.renderer].attributeEvaluators[e].activeNode

\* a listener's reducer changed the state of an item and the pass that
\* followed wrote attributes
C8_Witness ==
    /\ last.op = "event" /\ last.reducers = 1 /\ last.rendered /\ last.written
    /\ ~last.cloned /\ ~last.evicted

\* C9 (dataChanged): a host with a dataChanged method has it called once for
\* each reducer call of a listener whose update returns without an error, with
\* the data that call returned, after that data is stored and as the last
\* call of the update (the render pass has returned); a host without the
\* method, an event no listener acts on, an assignment of data by the page
\* and a frame callback make no such call.
C9_DataChangedHook ==
    /\ \A f \in Firings : \A r \in {Dispatched(f)} :
          /\ Len(Calls(r, "dataChanged")) =
                 IF hook /\ r.thrown = "" THEN Len(Calls(r, "reducer")) ELSE 0
          /\ \A j \in At(r, "dataChanged") :
                /\ r.trace[j].value = DataAt(r, j)
                /\ \E i \in At(r, "reducer") :
                      /\ i < j /\ r.trace[i].result = r.trace[j].value
                      /\ \A q \in (i + 1)..(j - 1) :
                            r.trace[q].op \notin {"reducer", "dataChanged", "listener"}
                /\ j < Len(r.trace) => r.trace[j + 1].op \in {"listener", "ignored"}
    /\ \A value \in DataInputs(mode) : Calls(Assigned(value), "dataChanged") = <<>>
    /\ frames > 0 => Calls(requestAnimationFrameCallback(Machine), "dataChanged") = <<>>

\* a listener of a host with a dataChanged method updated the data, the pass
\* for it rendered, and the method was called once
C9_Witness ==
    /\ hook /\ last.op = "event" /\ last.reducers = 1 /\ last.hooks = 1 /\ last.rendered

\* C10 (frame): a render pass returns with the host's data as it found them;
\* an assignment by the page stores the assigned value; a frame callback
\* stores nothing; and an event leaves the data alone unless a listener called
\* the reducer, in which case the data are what the last such call returned.
C10_DataFrame ==
    /\ Render(Machine).dataSource = dataSource
    /\ \A value \in DataInputs(mode) : Assigned(value).dataSource = value
    /\ frames > 0 => requestAnimationFrameCallback(Machine).dataSource = dataSource
    /\ \A f \in Firings : \A r \in {Dispatched(f)} :
          /\ \A i \in At(r, "setData") :
                i > 1 /\ r.trace[i - 1].op = "reducer"
          /\ r.dataSource = IF Calls(r, "reducer") = <<>> THEN dataSource
                            ELSE Calls(r, "reducer")[Len(Calls(r, "reducer"))].result

\* a pass over a two-item array with the items in another order than the
\* children were in has just completed
C10_Witness ==
    /\ mode = "array" /\ last.op = "data" /\ last.thrown = "" /\ last.moved
    /\ Len(dataSource.v) = 2 /\ last.rendered
    /\ Field(dataSource.v[1], STATE_PROPERTY) # Field(dataSource.v[2], STATE_PROPERTY)

\* ------------------------------------------- properties of the event listeners

\* the entries of a handler's calls made by a listener once it has looked up
\* the action: it found one, found none, or could not read the snapshot
Lookups(r) == At(r, "listener") \cup At(r, "ignored") \cup At(r, "throw")

\* C11 (submit suppression): a submit event that reaches a listener bound
\* through an action attribute has preventDefault, stopImmediatePropagation
\* and stopPropagation called on it before the listener looks up the action,
\* whether the lookup finds an action or not; no second listener, on the node
\* or on an ancestor, receives the event.
C11_SubmitSuppression ==
    \A target \in Targets : \A r \in {DispatchEvent(Machine, target, s_submit)} :
        Reached(target, s_submit) # <<>> =>
            /\ Len(r.trace) >= 3
            /\ r.trace[1].op = "preventDefault"
            /\ r.trace[2].op = "stopImmediatePropagation"
            /\ r.trace[3].op = "stopPropagation"
            /\ r.stopped
            /\ Cardinality(Lookups(r)) = 1
            /\ \A i \in Lookups(r) \cup At(r, "reducer") : i > 3
            /\ Count(r.trace, "preventDefault") = 1

\* a submit event on the form, whose listener has no action for the state of
\* the data and whose parent listens for submit too, has just been handled
C11_Witness ==
    /\ last.op = "event" /\ last.suppressed /\ last.ignored /\ last.reducers = 0
    /\ \E target \in Targets : Len(Reached(target, s_submit)) = 2

\* the names of the events a node's listeners were added for
ListenedEvents(n) == [i \in 1..Len(nodes[n].listeners) |-> nodes[n].listeners[i].event]

\* C12 (one listener per event), as claimed: no node carries two listeners for
\* one event name, the leading 'on' of a declared name removed, and a single
\* click on a node whose ancestors do not listen calls the reducer at most once.
C12_OneListenerPerEvent ==
    /\ \A n \in DOMAIN nodes :
          \A i, j \in 1..Len(nodes[n].listeners) :
              ListenedEvents(n)[i] = ListenedEvents(n)[j] => i = j
    /\ \A target \in Targets : \A r \in {DispatchEvent(Machine, target, s_click)} :
          (\A i \in 1..Len(Reached(target, s_click)) :
               Reached(target, s_click)[i] \in SeqSet(nodes[target].listeners))
          => Len(Calls(r, "reducer")) <= 1

\* the snapshot the renderer of a listener returns now: the one its last
\* render pass stored
SnapshotNow(listener) == rends[listener.renderer].dataGetter

\* C13 (action shape), as claimed: every Action passed to the reducer carries
\* type, the native event and the data of the snapshot the listener read; key
\* and index are present exactly in array mode and are then the key and index
\* of the item's last render pass.
C13_ActionShape ==
    \A f \in Firings : \A r \in {Dispatched(f)} :
    \A snapshot \in {SnapshotNow(Reached(f[1], f[2])[1])} :
        \A i \in At(r, "reducer") : \A action \in {r.trace[i].action} :
            /\ "type" \in DOMAIN action
            /\ "event" \in DOMAIN action
            /\ action.event = [type |-> f[2], target |-> f[1]]
            /\ "data" \in DOMAIN action
            /\ action.data = snapshot.data
            /\ ("key" \in DOMAIN action) = (mode = "array")
            /\ ("index" \in DOMAIN action) = (mode = "array")
            /\ mode = "array" => /\ action.key = snapshot.key
                                 /\ action.index = snapshot.index

\* ----------------------------------------------- properties of the grammar

\* the evaluators of the renderers the host holds
Evaluators ==
    UNION {{rends[c].attributeEvaluators[i] : i \in 1..Len(rends[c].attributeEvaluators)} :
              c \in DOMAIN rends}

\* the element of the template an evaluator's node was cloned from, with the
\* attributes the page author wrote
Declared(evaluator) == nodes[Subtree(nodes, template.v)[evaluator.activeNode[2]]].attrs

\* the (state, attribute) a watch name stands for
WatchKey(name) ==
    LET segments == Split(name)
    IN CASE Len(segments) = 1 -> <<STATE_GLOBAL, s_content>>
         [] Len(segments) = 2 -> <<STATE_GLOBAL, segments[1]>>
         [] OTHER -> <<segments[2], segments[1]>>

\* the entries of a two-level table as <<outer key, inner key, value>>
Entries(table) ==
    UNION {{<<table[i].k, table[i].v[j].k, table[i].v[j].v>> : j \in 1..Len(table[i].v)} :
              i \in 1..Len(table)}

\* the positions of the attributes of a family in a declaration, without those
\* a later attribute of the family files under the same pair
Filed(declared, suffix, Key(_)) ==
    {i \in 1..Len(declared) :
        /\ EndsWith(declared[i].k, suffix)
        /\ \A j \in (i + 1)..Len(declared) :
               EndsWith(declared[j].k, suffix) => Key(declared[j].k) # Key(declared[i].k)}

\* the page declares no toggle attribute
NoToggle ==
    \A n \in DOMAIN nodes : \A i \in 1..Len(nodes[n].attrs) :
        ~EndsWith(nodes[n].attrs[i].k, DATA_TOGGLE_ATTRIBUTE)

\* C14 (watch grammar): the watch table of every evaluator holds exactly, for
\* each attribute of its element whose name ends in 'watch', the attribute's
\* value under (state, attribute) = ('*', 'content') for a name of 1 segment,
\* ('*', segment 0) for 2 segments and (segment 1, segment 0) for 3 or more;
\* and on a page without toggle attributes no pass fails.
C14_WatchGrammar ==
    /\ \A evaluator \in Evaluators : \A declared \in {Declared(evaluator)} :
          Entries(evaluator.stateAttributeProperty)
              = {<<WatchKey(declared[i].k)[1], WatchKey(declared[i].k)[2], declared[i].v>> :
                    i \in Filed(declared, DATA_WATCH_ATTRIBUTE, WatchKey)}
    /\ NoToggle =>
          /\ \A value \in DataInputs(mode) : Assigned(value).thrown = ""
          /\ frames > 0 => requestAnimationFrameCallback(Machine).thrown = ""

\* a pass has just rendered an element declared with a watch name of four
\* segments
C14_Witness ==
    /\ last.rendered /\ last.thrown = ""
    /\ \E evaluator \in Evaluators : \E i \in 1..Len(Declared(evaluator)) :
          /\ EndsWith(Declared(evaluator)[i].k, DATA_WATCH_ATTRIBUTE)
          /\ Len(Split(Declared(evaluator)[i].k)) = 4
          /\ evaluator.stateAttributeProperty # <<>>

\* the (event, state) an action name stands for
ActionKey(name) ==
    LET segments == Split(name)
    IN CASE Len(segments) = 1 -> <<s_click, STATE_GLOBAL>>
         [] Len(segments) = 2 -> <<segments[1], STATE_GLOBAL>>
         [] OTHER -> <<segments[1], segments[2]>>

\* C15 (action grammar): the action table of every evaluator holds exactly,
\* for each attribute of its element whose name ends in 'action', the action
\* type under (event, state) = ('click', '*') for a name of 1 segment,
\* (segment 0, '*') for 2 segments and (segment 0, segment 1) for 3 or more;
\* and on a page without toggle attributes no event handler and no pass fails.
C15_ActionGrammar ==
    /\ \A evaluator \in Evaluators : \A declared \in {Declared(evaluator)} :
          Entries(evaluator.eventStateAction)
              = {<<ActionKey(declared[i].k)[1], ActionKey(declared[i].k)[2], declared[i].v>> :
                    i \in Filed(declared, DATA_ACTION_ATTRIBUTE, ActionKey)}
    /\ NoToggle =>
          /\ \A target \in Targets, type \in EventTypes :
                DispatchEvent(Machine, target, type).thrown = ""
          /\ Render(Machine).thrown = ""

\* a pass has just rendered an element declared with an action name of four
\* segments
C15_Witness ==
    /\ last.rendered /\ last.thrown = ""
    /\ \E evaluator \in Evaluators : \E i \in 1..Len(Declared(evaluator)) :
          /\ EndsWith(Declared(evaluator)[i].k, DATA_ACTION_ATTRIBUTE)
          /\ Len(Split(Declared(evaluator)[i].k)) = 4
          /\ evaluator.eventStateAction # <<>>

\* the (attribute, state) a toggle name of 3 segments stands for
ToggleKey(name) == <<Split(name)[1], Split(name)[2]>>

\* the declaration holds a toggle attribute whose name does not have 3 segments
Malformed(declared) ==
    \E i \in 1..Len(declared) :
        EndsWith(declared[i].k, DATA_TOGGLE_ATTRIBUTE) /\ Len(Split(declared[i].k)) # 3

\* the elements of the captured template that are declared with such an attribute
MalformedElements ==
    IF template.t # "arr" THEN {}
    ELSE {n \in SeqSet(Subtree(nodes, template.v)) : Malformed(nodes[n].attrs)}

\* the value makes the pass construct a renderer from the template
Constructs(value) ==
    /\ template.t = "arr"
    /\ IF mode = "array" THEN value.t = "arr" /\ value.v # <<>> ELSE hasValue(value)

\* C16 (toggle arity): the toggle table of every evaluator holds, for each
\* toggle attribute of its element, the value under attribute = segment 0 and
\* state = segment 1 of the 3 segments of its name; an element declared with
\* a toggle name of 1, 2, 4 or more segments never gets an evaluator, and a
\* pass that constructs a renderer over it throws: the host gets no renderer,
\* nothing is rendered, and no copy of the element carries a listener.
C16_ToggleArity ==
    /\ \A evaluator \in Evaluators : \A declared \in {Declared(evaluator)} :
          /\ ~Malformed(declared)
          /\ Entries(evaluator.attributeStateProperty)
                = {<<ToggleKey(declared[i].k)[1], ToggleKey(declared[i].k)[2], declared[i].v>> :
                      i \in Filed(declared, DATA_TOGGLE_ATTRIBUTE, ToggleKey)}
    /\ MalformedElements # {} =>
          \A value \in DataInputs(mode) : \A r \in {Assigned(value)} :
              Constructs(value) =>
                  /\ r.thrown = "toggle"
                  /\ r.renderer = 0 /\ r.renderers = NoKeys
                  /\ Calls(r, "render") = <<>>
                  /\ \A n \in DOMAIN r.nodes :
                        (n[1] >= 1 /\ Subtree(nodes, template.v)[n[2]] \in MalformedElements)
                        => r.nodes[n].listeners = <<>>

\* a pass over a template whose element is declared with a toggle name of
\* four segments has just thrown
C16_Witness ==
    /\ last.thrown = "toggle" /\ last.op = "data" /\ last.cloned
    /\ \E n \in MalformedElements : \E i \in 1..Len(nodes[n].attrs) :
          /\ EndsWith(nodes[n].attrs[i].k, DATA_TOGGLE_ATTRIBUTE)
          /\ Len(Split(nodes[n].attrs[i].k)) = 4

\* the names of the toggle attributes of a declaration that do not have 3 segments
Offending(declared) ==
    {declared[i].k : i \in {j \in 1..Len(declared) :
                               /\ EndsWith(declared[j].k, DATA_TOGGLE_ATTRIBUTE)
                               /\ Len(Split(declared[j].k)) # 3}}

\* C17 (toggle error), as claimed: the error thrown for a toggle attribute
\* whose name does not have 3 segments contains the name of that attribute,
\* and the errors for two such attributes with different names differ.
C17_ErrorNamesAttribute ==
    \A n \in MalformedElements :
        \A value \in DataInputs(mode) : \A r \in {Assigned(value)} :
            \A i \in {j \in At(r, "throw") : r.trace[j].error = "toggle"} :
                /\ \E name \in Offending(nodes[n].attrs) : Includes(r.trace[i].message, name)
                /\ \A other \in {d \in ToggleAttrs : Malformed(d)} :
                      Offending(other) # Offending(nodes[n].attrs)
                      => mapAttributeStateProperty(other).message # r.trace[i].message

\* -------------------------------------------- properties of the synchronizer

\* the evaluator renders now, reading a snapshot of the item
Rendered(evaluator, item) == AttributeEvaluatorRender(Machine, evaluator, [data |-> item])

\* the attribute writes of a kind ("watch" or "toggle") a handler made, in order
Writes(r, kind) ==
    [i \in 1..Len(SelectSeq(r.trace, LAMBDA e : e.op = "setAttribute" /\ e.by = kind)) |->
        [name |-> SelectSeq(r.trace, LAMBDA e : e.op = "setAttribute" /\ e.by = kind)[i].name,
         value |-> SelectSeq(r.trace, LAMBDA e : e.op = "setAttribute" /\ e.by = kind)[i].value]]

\* the attribute-to-path table the claim selects for a state: the table of the
\* state, otherwise the table of '*', otherwise none
Selected(table, state) ==
    IF MapHas(table, state) THEN MapGet(table, state)
    ELSE IF MapHas(table, STATE_GLOBAL) THEN MapGet(table, STATE_GLOBAL)
    ELSE <<>>

\* C18 (watch state selection): when an evaluator renders data of state s, the
\* watch pass writes, for each entry of the table registered for s (of the
\* table of '*' when s has none), the value at the entry's path to the
\* attribute, to the property when the element has one of that name, and to
\* the content for 'content'; when neither table exists it writes nothing and
\* attributes, properties and content of the node stay as they were.
C18_WatchSelection ==
    \A evaluator \in Evaluators : \A item \in Items : \A r \in {Rendered(evaluator, item)} :
    \A n \in {evaluator.activeNode} :
    \A selected \in {Selected(evaluator.stateAttributeProperty,
                              Field(item, STATE_PROPERTY).v)} :
        /\ Writes(r, "watch")
              = [i \in 1..Len(selected) |->
                    [name |-> selected[i].k,
                     value |-> StringOf(extractValue(item, selected[i].v))]]
        /\ \A i \in 1..Len(selected) :
              /\ selected[i].k \in PropertiesOf(nodes[n].tag)
                    => MapGet(r.nodes[n].props, selected[i].k)
                           = extractValue(item, selected[i].v)
              /\ selected[i].k = s_content
                    => r.nodes[n].html = Str(StringOf(extractValue(item, selected[i].v)))
        /\ selected = <<>> =>
              /\ r.nodes[n].props = nodes[n].props /\ r.nodes[n].html = nodes[n].html
              /\ r.nodes[n].cb = nodes[n].cb /\ r.nodes[n].kids = nodes[n].kids
              /\ evaluator.attributeStateProperty = <<>> => r.nodes[n].attrs = nodes[n].attrs

\* a pass over data of state y has just completed on an element that watches
\* under state x only and still carries the value written under x
C18_Witness ==
    /\ last.op = "data" /\ last.rendered /\ last.thrown = "" /\ ~last.written
    /\ mode = "single" /\ dataSource.t = "obj" /\ Field(dataSource, STATE_PROPERTY) = Str(s_y)
    /\ \E evaluator \in Evaluators :
          /\ Selected(evaluator.stateAttributeProperty, s_y) = <<>>
          /\ evaluator.stateAttributeProperty # <<>>
          /\ GetAttribute(nodes[evaluator.activeNode], s_title) = Str(s_A)

\* the declaration an evaluator of a handler's outcome was built from
DeclaredIn(r, evaluator) ==
    r.nodes[Subtree(r.nodes, r.template.v)[evaluator.activeNode[2]]].attrs

\* the attributes a declaration toggles
Toggled(declared) ==
    {Split(declared[i].k)[1] :
        i \in {j \in 1..Len(declared) :
                  /\ Len(Split(declared[j].k)) = 3
                  /\ Split(declared[j].k)[3] = DATA_TOGGLE_ATTRIBUTE}}

\* the declared value of a name, the empty string when it is not declared
ValueOf(declared, name) == IF MapHas(declared, name) THEN MapGet(declared, name) ELSE <<>>

\* default and value of exactly the state, those that are not empty, one space between
Joined(declared, attribute, state) ==
    LET default == ValueOf(declared, attribute)
        value == ValueOf(declared, Dotted(<<attribute, state, DATA_TOGGLE_ATTRIBUTE>>))
    IN IF default = <<>> THEN value
       ELSE IF value = <<>> THEN default
       ELSE default \o <<" ">> \o value

\* C19 (toggle value): when a render pass completes, every toggled attribute
\* of every rendered node is the captured default (if not empty) and the value
\* registered for exactly the state of the node's data (if not empty), joined
\* by one space, with no fallback to '*': 'base hot', 'base', or ''.
C19_ToggleValue ==
    \A value \in DataInputs(mode) : \A r \in {Assigned(value)} :
        PassCompleted(r) =>
            \A c \in LiveRenderers(r) :
            \A i \in 1..Len(r.rends[c].attributeEvaluators) :
            \A evaluator \in {r.rends[c].attributeEvaluators[i]} :
            \A attribute \in Toggled(DeclaredIn(r, evaluator)) :
                GetAttribute(r.nodes[evaluator.activeNode], attribute)
                    = Str(Joined(DeclaredIn(r, evaluator), attribute,
                                 Field(r.rends[c].dataGetter.data, STATE_PROPERTY).v))

\* a pass has just completed on data of state x and left class="base hot" on
\* an element declared with class="base" class.x.toggle="hot"
C19_Witness ==
    /\ last.op = "data" /\ last.rendered /\ last.thrown = ""
    /\ \E c \in LiveRenderers(Machine) :
          /\ Field(rends[c].dataGetter.data, STATE_PROPERTY) = Str(s_x)
          /\ \E i \in 1..Len(rends[c].attributeEvaluators) :
                /\ ValueOf(Declared(rends[c].attributeEvaluators[i]),
                           Dotted(<<s_class, s_x, DATA_TOGGLE_ATTRIBUTE>>)) = s_hot
                /\ GetAttribute(nodes[rends[c].attributeEvaluators[i].activeNode], s_class)
                      = Str(s_base \o <<" ">> \o s_hot)

\* the positions of a handler's attribute writes of a kind
WritesAt(r, kind) ==
    {i \in 1..Len(r.trace) : r.trace[i].op = "setAttribute" /\ r.trace[i].by = kind}

\* the earlier writes of the handler to the attribute written at position i
Earlier(r, i) ==
    {j \in 1..(i - 1) : /\ r.trace[j].op = "setAttribute"
                        /\ r.trace[j].node = r.trace[i].node
                        /\ r.trace[j].name = r.trace[i].name}

\* the live value of the attribute just before the write at position i: what
\* the handler wrote last, otherwise what a node cloned by the handler took
\* from the template, otherwise what the node carried when the handler began
LiveBefore(r, i) ==
    IF Earlier(r, i) # {}
    THEN Str(r.trace[CHOOSE j \in Earlier(r, i) : \A k \in Earlier(r, i) : k <= j].value)
    ELSE IF \E j \in 1..(i - 1) : r.trace[j].op = "clone" /\ r.trace[j].copy = r.trace[i].node[1]
    THEN GetAttribute(r.nodes[Subtree(r.nodes, r.template.v)[r.trace[i].node[2]]],
                      r.trace[i].name)
    ELSE GetAttribute(nodes[r.trace[i].node], r.trace[i].name)

\* the outcome of a handler as the state the next handler starts from
Resumed(r) == [r EXCEPT !.trace = <<>>, !.thrown = "", !.stopped = FALSE]

\* the toggle writes of a handler to attributes no watch binding wrote before
Unwatched(r) ==
    {i \in WritesAt(r, "toggle") : \A j \in Earlier(r, i) : r.trace[j].by # "watch"}

\* C20 (toggle write-skip): every setAttribute of the toggle pass writes a
\* string that differs from the live value the attribute had just before; an
\* evaluator rendered twice in a row over data of the same state makes no
\* toggle write the second time, and a second pass over the same data (each
\* renderer rendered once) makes no toggle write at all, attributes written
\* by a watch binding aside.
C20_ToggleWriteSkip ==
    /\ \A value \in DataInputs(mode) : \A r \in {Assigned(value)} :
          /\ \A i \in WritesAt(r, "toggle") : LiveBefore(r, i) # Str(r.trace[i].value)
          /\ PassCompleted(r) /\ (mode = "array" => DistinctKeys(value)) =>
                Unwatched(setData(Resumed(r), ValueSetter(value))) = {}
    /\ \A evaluator \in Evaluators : \A first, second \in Items :
          Field(first, STATE_PROPERTY) = Field(second, STATE_PROPERTY) =>
              Unwatched(AttributeEvaluatorRender(Resumed(Rendered(evaluator, first)),
                                                 evaluator, [data |-> second])) = {}

\* a pass has just rendered an element that toggles an attribute, cloned
\* nothing and wrote no attribute: the computed strings were the live values
C20_Witness ==
    /\ last.op = "data" /\ last.rendered /\ ~last.cloned /\ ~last.written
    /\ last.thrown = ""
    /\ \E evaluator \in Evaluators :
          /\ evaluator.attributeStateProperty # <<>>
          /\ GetAttribute(nodes[evaluator.activeNode], s_class) = Str(s_base \o <<" ">> \o s_hot)

\* ------------------------------------------------- properties of the mount

\* the host is attached now
Attached == connectedCallback([Machine EXCEPT !.isConnected = TRUE])

\* the calls of a handler that capture the template or change the host's children
Mounting == Effects \cup {"populateTemplate", "unhide"}

\* C21 (mount deferral): until the first animation-frame callback has run, the
\* template is not captured and neither attaching the host nor assigning data
\* changes the host's children; the frame callback captures the template,
\* then unhides the host, then renders the data assigned before it (in
\* context-array, when the page declared data.key).
C21_MountDeferral ==
    /\ hasNoValue(template) =>
          /\ kids = MarkupRoots /\ nodes = Markup
          /\ ~isConnected =>
                \A r \in {Attached} :
                    /\ hasNoValue(r.template) /\ r.kids = kids /\ r.nodes = nodes
                    /\ \A i \in 1..Len(r.trace) : r.trace[i].op \notin Mounting
                    /\ r.frames = frames + 1
          /\ \A value \in MountInputs(mode) : \A r \in {Assigned(value)} :
                /\ hasNoValue(r.template) /\ r.kids = kids /\ r.nodes = nodes
                /\ \A i \in 1..Len(r.trace) : r.trace[i].op \notin Mounting
                /\ r.dataSource = value
    /\ frames > 0 =>
          \A r \in {requestAnimationFrameCallback(Machine)} :
              /\ Len(r.trace) >= 2
              /\ r.trace[1].op = "populateTemplate" /\ r.trace[2].op = "unhide"
              /\ \A i \in 3..Len(r.trace) : r.trace[i].op \notin {"populateTemplate", "unhide"}
              /\ hasNoValue(template) =>
                    r.template = Arr(SelectSeq(MarkupRoots,
                                               LAMBDA n : noEmptyTextNode(Markup[n])))
              /\ ~r.hidden
              /\ mode = "single" /\ hasValue(dataSource) =>
                    /\ r.thrown = ""
                    /\ Len(Calls(r, "render")) = 1
                    /\ Calls(r, "render")[1].snapshot.data = dataSource
              /\ mode = "array" /\ hasValue(dataSource) /\ hasValue(dataKeyField) =>
                    /\ r.thrown = ""
                    /\ Len(Calls(r, "render")) = Len(dataSource.v)
                    /\ \A i \in 1..Len(dataSource.v) :
                          Calls(r, "render")[i].snapshot.data = dataSource.v[i]

\* the first frame callback has just run and rendered data that was assigned
\* while the host waited for it
C21_Witness ==
    /\ last.op = "frame" /\ last.rendered /\ last.cloned /\ last.thrown = ""
    /\ hasValue(template) /\ kids # <<>> /\ ~hidden

\* the template the first capture takes from the page's markup
Captured == Arr(SelectSeq(MarkupRoots, LAMBDA n : noEmptyTextNode(Markup[n])))

\* C22 (template captured once), as claimed: however often and whenever the
\* host is attached, the template is captured one time; once captured it
\* stays the page's markup: no frame callback replaces it by the host's later
\* children, the rendered nodes or an empty list.
C22_TemplateCapturedOnce ==
    /\ hasValue(template) => template = Captured
    /\ hasValue(template) /\ frames > 0 =>
          requestAnimationFrameCallback(Machine).template = template

\* C23 (detach before first frame), as claimed: when the host was detached
\* after connectedCallback requested the first frame and before the frame
\* fires, the callback captures no template, leaves the children alone,
\* renders nothing, does not call the mounted callback and does not throw.
C23_DetachBeforeFrame ==
    ~isConnected /\ frames > 0 /\ hasNoValue(template) =>
        \A r \in {requestAnimationFrameCallback(Machine)} :
            /\ r.template = template /\ r.kids = kids /\ r.nodes = nodes
            /\ r.onMountedCallback = onMountedCallback
            /\ \A i \in 1..Len(r.trace) :
                  r.trace[i].op \notin Mounting \cup {"onMounted"}
            /\ r.thrown = ""

\* C24 (onMounted), as claimed: a callback registered before the first-mount
\* frame is invoked exactly once by that frame callback, after the template
\* was captured and the first render was attempted, and is cleared by it;
\* no frame callback invokes a cleared callback, and neither attaching the
\* host nor assigning data invokes the callback.
C24_OnMounted ==
    /\ frames > 0 =>
          \A r \in {requestAnimationFrameCallback(Machine)} :
              /\ onMountedCallback /\ hasNoValue(template) =>
                    /\ Cardinality(At(r, "onMounted")) = 1
                    /\ \A i \in At(r, "onMounted") :
                          \A j \in At(r, "populateTemplate") \cup At(r, "render") :
                              j < i
                    /\ ~r.onMountedCallback
              /\ ~onMountedCallback => At(r, "onMounted") = {}
    /\ ~isConnected => At(Attached, "onMounted") = {}
    /\ \A value \in MountInputs(mode) : At(Assigned(value), "onMounted") = {}

\* ------------------------------------------------ properties of the scanner

\* the tags of the two components
ComponentTags == {ToUpperCase(CONTEXT_ELEMENT_TAG_NAME),
                  ToUpperCase(ARRAY_CONTEXT_ELEMENT_TAG_NAME)}

\* a name the scanner and the constructor take for a binding attribute: one
\* that contains one of the keywords
IsBinding(name) == Contains(name, activeAttributes)

\* the element at position i of the template, in document order, carries a
\* binding attribute
Bound(r, i) ==
    LET node == r.nodes[Subtree(r.nodes, r.template.v)[i]]
    IN node.kind = "el" /\ \E j \in 1..Len(node.attrs) : IsBinding(node.attrs[j].k)

RECURSIVE Ancestors(_, _)
\* the proper ancestors of a node inside the host
Ancestors(store, n) ==
    IF ParentOf(store, n) = NoNode THEN {}
    ELSE {ParentOf(store, n)} \cup Ancestors(store, ParentOf(store, n))

\* the node at position i of the template lies inside a nested component
Nested(r, i) ==
    \E a \in Ancestors(r.nodes, Subtree(r.nodes, r.template.v)[i]) :
        r.nodes[a].tag \in ComponentTags

\* the positions, in document order, of the nodes the evaluators of a renderer hold
Scanned(built) ==
    [i \in 1..Len(built.attributeEvaluators) |-> built.attributeEvaluators[i].activeNode[2]]

\* C25 (scanner): the evaluators of a renderer built in a pass stand, one per
\* element and in document order, for exactly the elements of the cloned
\* template that carry a binding attribute and do not lie inside a nested
\* component; a nested component that carries a binding attribute is among them.
C25_Scanner ==
    \A value \in MountInputs(mode) : \A r \in {Assigned(value)} :
        \A i \in At(r, "clone") : \A built \in {r.rends[r.trace[i].copy]} :
            /\ \A j, k \in 1..Len(Scanned(built)) :
                  j < k => Scanned(built)[j] < Scanned(built)[k]
            /\ SeqSet(Scanned(built))
                  = {p \in 1..Len(Subtree(r.nodes, r.template.v)) :
                        Bound(r, p) /\ ~Nested(r, p)}
            /\ \A j \in 1..Len(built.attributeEvaluators) :
                  built.attributeEvaluators[j].activeNode[1] = r.trace[i].copy

\* a renderer of the nested page holds three evaluators: the outer element,
\* the nested component and the button, and none for the elements inside the
\* nested components
C25_Witness ==
    /\ last.op \in {"data", "frame"} /\ last.cloned /\ last.thrown = ""
    /\ \E c \in DOMAIN rends :
          /\ Len(rends[c].attributeEvaluators) = 3
          /\ \E i \in 1..3 :
                nodes[rends[c].attributeEvaluators[i].activeNode].tag \in ComponentTags
          /\ \E n \in SeqSet(Subtree(nodes, rends[c].nodes)) :
                /\ Ancestors(nodes, n) # {}
                /\ \E a \in Ancestors(nodes, n) : nodes[a].tag \in ComponentTags

\* ------------------------------------- properties of the evaluator's construction

\* the attributes of the template element a node was cloned from
DeclaredFor(r, n) == DeclaredIn(r, [activeNode |-> n])

\* the positions of the removals a handler made on a node
Removals(r, n) == {j \in At(r, "removeAttribute") : r.trace[j].node = n}

\* the evaluators of a handler's outcome that hold a node
EvaluatorsOf(r, n) ==
    {r.rends[n[1]].attributeEvaluators[k] :
        k \in {j \in 1..Len(r.rends[n[1]].attributeEvaluators) :
                  r.rends[n[1]].attributeEvaluators[j].activeNode = n}}

\* what the construction of the evaluators does in every handler, whatever the
\* order of removal and capture: each binding attribute of the declaration is
\* removed once, with the capture and before the node's first synchronize
\* call, the node is left without binding attribute, and the captured map is
\* the declaration without its binding attributes
StrippedAndCaptured(r) ==
    /\ \A i \in At(r, "populateDefaultAttributeValue") : \A n \in {r.trace[i].node} :
          /\ \A k \in At(r, "populateDefaultAttributeValue") :
                r.trace[k].node = n => k = i
          /\ {r.trace[j].name : j \in Removals(r, n)}
                = {DeclaredFor(r, n)[k].k :
                      k \in {j \in 1..Len(DeclaredFor(r, n)) :
                                IsBinding(DeclaredFor(r, n)[j].k)}}
          /\ \A j, k \in Removals(r, n) : r.trace[j].name = r.trace[k].name => j = k
          /\ \A j \in Removals(r, n) \cup {i} :
                \A k \in At(r, "read") : r.trace[k].node = n => j < k
          /\ \A k \in 1..Len(r.nodes[n].attrs) : ~IsBinding(r.nodes[n].attrs[k].k)
          /\ \A evaluator \in EvaluatorsOf(r, n) :
                evaluator.defaultAttributeValue
                    = SelectSeq(DeclaredFor(r, n), LAMBDA a : ~IsBinding(a.k))
    /\ \A j \in At(r, "removeAttribute") :
          \E i \in At(r, "populateDefaultAttributeValue") :
              r.trace[i].node = r.trace[j].node

\* the evaluators the host holds keep nodes without binding attributes and
\* the defaults captured at their construction
KeptStripped ==
    \A evaluator \in Evaluators :
        /\ \A k \in 1..Len(nodes[evaluator.activeNode].attrs) :
              ~IsBinding(nodes[evaluator.activeNode].attrs[k].k)
        /\ evaluator.defaultAttributeValue
              = SelectSeq(Declared(evaluator), LAMBDA a : ~IsBinding(a.k))

\* C26 (strip and capture), as claimed: binding attributes are removed from
\* the live node exactly once, at construction and before the first
\* synchronize call; the defaults are captured before that removal; the
\* captured map holds every non-binding attribute with its markup value and
\* no binding attribute.
C26_CaptureBeforeStrip ==
    /\ KeptStripped
    /\ \A value \in MountInputs(mode) : \A r \in {Assigned(value)} :
          /\ StrippedAndCaptured(r)
          /\ \A i \in At(r, "populateDefaultAttributeValue") :
                \A j \in Removals(r, r.trace[i].node) : i < j

\* C26 (strip and capture), amended: the same, with the defaults captured
\* after the removal, from the attributes the removal left on the node.
C26_StripThenCapture ==
    /\ KeptStripped
    /\ \A value \in MountInputs(mode) : \A r \in {Assigned(value)} :
          /\ StrippedAndCaptured(r)
          /\ \A i \in At(r, "populateDefaultAttributeValue") :
                \A j \in Removals(r, r.trace[i].node) : j < i
    /\ \A f \in Firings : At(Dispatched(f), "removeAttribute") = {}

\* a pass has just built an evaluator for an element declared with a default
\* attribute and binding attributes, and the evaluator captured the default
C26_Witness ==
    /\ last.op \in {"data", "frame"} /\ last.cloned /\ last.thrown = ""
    /\ \E evaluator \in Evaluators :
          /\ evaluator.defaultAttributeValue = <<Attr(s_class, s_base)>>
          /\ Len(Declared(evaluator)) > 1

\* ------------------------------------------------ properties of the snapshot

\* the position of the render call an evaluator's read at position i belongs to
RenderOf(r, i) == CHOOSE j \in At(r, "render") :
                      j < i /\ \A k \in At(r, "render") : k < i => k <= j

\* the reads that belong to the render call at position j
ReadsOf(r, j) == {i \in At(r, "read") : RenderOf(r, i) = j}

\* within the passes of a handler every evaluator of a renderer reads what
\* render was called with, every evaluator of the renderer reads once per
\* call, and the handler leaves each renderer with the getter of its last call
SnapshotsAgree(r) ==
    /\ \A i \in At(r, "read") :
          /\ \E j \in At(r, "render") : j < i
          /\ r.trace[i].node[1] = r.trace[RenderOf(r, i)].copy
          /\ r.trace[i].snapshot = r.trace[RenderOf(r, i)].snapshot
    /\ \A j \in At(r, "render") :
          /\ mode = "array" =>
                {"data", "key", "index"} \subseteq DOMAIN r.trace[j].snapshot
          /\ r.trace[j].copy \in DOMAIN r.rends =>
                /\ Cardinality(ReadsOf(r, j))
                      = Len(r.rends[r.trace[j].copy].attributeEvaluators)
                /\ (\A k \in At(r, "render") : r.trace[k].copy = r.trace[j].copy => k <= j)
                      => r.rends[r.trace[j].copy].dataGetter = r.trace[j].snapshot
    /\ \A c \in DOMAIN r.rends \cap DOMAIN rends :
          (\A j \in At(r, "render") : r.trace[j].copy # c)
              => r.rends[c].dataGetter = rends[c].dataGetter

\* C27 (snapshot consistency): in every pass, whether data was assigned or a
\* listener ran the reducer, all evaluators of a renderer read the snapshot
\* its render was called with (data, and key and index in context-array) and
\* the renderer keeps it; a listener that fires reads the snapshot its
\* renderer kept from its most recent pass.
C27_SnapshotConsistency ==
    /\ \A value \in DataInputs(mode) : SnapshotsAgree(Assigned(value))
    /\ \A f \in Firings : \A r \in {Dispatched(f)} :
          /\ SnapshotsAgree(r)
          /\ \A i \in At(r, "listener") \cup At(r, "ignored") :
                r.trace[i].snapshot = SnapshotNow(Reached(f[1], f[2])[1])

\* a listener has just read its renderer's snapshot and the pass that followed
\* rendered a renderer with two evaluators
C27_Witness ==
    /\ last.op = "event" /\ last.reducers = 1 /\ last.rendered /\ last.thrown = ""
    /\ \E c \in DOMAIN rends :
          /\ Len(rends[c].attributeEvaluators) = 2
          /\ rends[c].dataGetter # NoGetter

\* ------------------------------------------------- properties of the tables

\* a two-level table holds each outer key once and, under it, each inner key once
OneValue(table) ==
    /\ \A i, j \in 1..Len(table) : table[i].k = table[j].k => i = j
    /\ \A i \in 1..Len(table) :
          \A a, b \in 1..Len(table[i].v) : table[i].v[a].k = table[i].v[b].k => a = b

\* the entries a table must hold for a declaration: for every coordinate the
\* value of the last attribute of the family that stands for it
LastDeclared(declared, suffix, Key(_)) ==
    {<<Key(declared[i].k)[1], Key(declared[i].k)[2], declared[i].v>> :
        i \in {j \in 1..Len(declared) :
                  /\ EndsWith(declared[j].k, suffix)
                  /\ ~\E k \in (j + 1)..Len(declared) :
                         /\ EndsWith(declared[k].k, suffix)
                         /\ Key(declared[k].k) = Key(declared[j].k)}}

\* C28 (last write wins): in each of the three tables of every evaluator a
\* coordinate ((state, attribute) for watch, (attribute, state) for toggle,
\* (event, state) for action) has one value, the value of the attribute
\* declared last among those of the element that stand for the coordinate.
C28_LastWriteWins ==
    \A evaluator \in Evaluators : \A declared \in {Declared(evaluator)} :
        /\ OneValue(evaluator.stateAttributeProperty)
        /\ OneValue(evaluator.attributeStateProperty)
        /\ OneValue(evaluator.eventStateAction)
        /\ Entries(evaluator.stateAttributeProperty)
              = LastDeclared(declared, DATA_WATCH_ATTRIBUTE, WatchKey)
        /\ Entries(evaluator.attributeStateProperty)
              = LastDeclared(declared, DATA_TOGGLE_ATTRIBUTE, ToggleKey)
        /\ Entries(evaluator.eventStateAction)
              = LastDeclared(declared, DATA_ACTION_ATTRIBUTE, ActionKey)

\* the host holds an evaluator of an element declared with watch="name" and
\* then content.watch="id": its table holds id for ('*', 'content')
C28_Witness ==
    \E evaluator \in Evaluators :
        /\ Declared(evaluator) = <<Attr(s_watch, s_name),
                                   Attr(Dotted(<<s_content, s_watch>>), s_id)>>
        /\ Entries(evaluator.stateAttributeProperty) = {<<STATE_GLOBAL, s_content, s_id>>}

\* ---------------------------------------------- properties of the watch pass

\* the names the watch pass never writes as attributes
Reserved == {s_data, s_reducer}

\* C29 (watch pass effects): when an evaluator renders, each (attribute, path)
\* of the selected table has three independent effects with the value at the
\* path: setAttribute unless the attribute is 'data' or 'reducer'; if the
\* element has a property of that name, the property is assigned and the
\* <attribute>Changed callback installed, otherwise neither; for 'content'
\* the inner markup is assigned, next to the attribute named content.
C29_WatchEffects ==
    \A evaluator \in Evaluators : \A item \in Items : \A r \in {Rendered(evaluator, item)} :
    \A n \in {evaluator.activeNode} :
    \A selected \in {Selected(evaluator.stateAttributeProperty,
                              Field(item, STATE_PROPERTY).v)} :
        /\ Writes(r, "watch")
              = [i \in 1..Len(SelectSeq(selected, LAMBDA e : e.k \notin Reserved)) |->
                    [name |-> SelectSeq(selected, LAMBDA e : e.k \notin Reserved)[i].k,
                     value |-> StringOf(extractValue(item,
                                   SelectSeq(selected, LAMBDA e : e.k \notin Reserved)[i].v))]]
        /\ \A name \in Reserved : GetAttribute(r.nodes[n], name) = Null
        /\ \A i \in 1..Len(selected) :
              /\ IF selected[i].k \in PropertiesOf(nodes[n].tag)
                 THEN /\ MapGet(r.nodes[n].props, selected[i].k)
                            = extractValue(item, selected[i].v)
                      /\ MapHas(r.nodes[n].cb, selected[i].k \o s_Changed)
                 ELSE /\ ~MapHas(r.nodes[n].props, selected[i].k)
                      /\ ~MapHas(r.nodes[n].cb, selected[i].k \o s_Changed)
              /\ selected[i].k = s_content =>
                    /\ r.nodes[n].html = Str(StringOf(extractValue(item, selected[i].v)))
                    /\ GetAttribute(r.nodes[n], s_content)
                          = Str(StringOf(extractValue(item, selected[i].v)))
        /\ (\A i \in 1..Len(selected) : selected[i].k # s_content)
              => r.nodes[n].html = nodes[n].html

\* a pass has just rendered a nested context-element that watches data,
\* reducer and the content: both properties are assigned, neither is an
\* attribute, and the content is inner markup and attribute
C29_Witness ==
    /\ last.op \in {"data", "frame"} /\ last.rendered /\ last.thrown = ""
    /\ \E evaluator \in Evaluators : \E n \in {evaluator.activeNode} :
          /\ nodes[n].tag = ToUpperCase(CONTEXT_ELEMENT_TAG_NAME)
          /\ MapHas(nodes[n].props, s_data) /\ MapHas(nodes[n].props, s_reducer)
          /\ GetAttribute(nodes[n], s_data) = Null /\ GetAttribute(nodes[n], s_reducer) = Null
          /\ nodes[n].html # Undefined
          /\ GetAttribute(nodes[n], s_content) = nodes[n].html

\* ------------------------------------------- properties of the path evaluation

\* the generated function throws when it reads the path in the data:
\* a segment is empty or a property of null or undefined is read
Throws(data, path) ==
    \/ \E i \in 1..Len(Split(path)) : Split(path)[i] = <<>>
    \/ \E i \in 1..(Len(Split(path)) - 1) :
           WalkPath(data, SubSeq(Split(path), 1, i), 1).val \in {Null, Undefined}

\* the toggle value a declaration registers for an attribute under a state,
\* the empty string when it registers none
Registered(declared, attribute, state) ==
    LET hits == {e \in LastDeclared(declared, DATA_TOGGLE_ATTRIBUTE, ToggleKey) :
                    e[1] = attribute /\ e[2] = state}
    IN IF hits = {} THEN <<>> ELSE (CHOOSE e \in hits : TRUE)[3]

\* two strings, those that are not empty, one space between
JoinTwo(a, b) == IF a = <<>> THEN b ELSE IF b = <<>> THEN a ELSE a \o <<" ">> \o b

\* the values a page may hand to an <attribute>Changed callback
Inputs == {Null, Str(s_A), Str(s_B)}

\* C30 (path evaluation failure): an evaluator whose table holds a path that
\* cannot be evaluated does not throw when it renders: the failing binding
\* writes null, every other watch binding of the node writes its value, the
\* toggle pass leaves the joined value, and the installed callback of the
\* failing path leaves the data as it is; the pass that renders it completes
\* and every evaluator of the pass reads and writes.
C30_PathFailure ==
    /\ \A evaluator \in Evaluators : \A item \in Items : \A r \in {Rendered(evaluator, item)} :
       \A n \in {evaluator.activeNode} :
       \A selected \in {Selected(evaluator.stateAttributeProperty,
                                 Field(item, STATE_PROPERTY).v)} :
          /\ r.thrown = ""
          /\ Len(Writes(r, "watch")) = Len(SelectSeq(selected, LAMBDA e : e.k \notin Reserved))
          /\ \A i \in 1..Len(selected) :
                /\ Throws(item, selected[i].v) =>
                      /\ selected[i].k \notin Reserved =>
                            GetAttribute(r.nodes[n], selected[i].k) = Str(s_null)
                      /\ selected[i].k \in PropertiesOf(nodes[n].tag) =>
                            /\ MapGet(r.nodes[n].props, selected[i].k) = Null
                            /\ \A value \in Inputs :
                                  injectValue(item, selected[i].v, value) = item
                /\ ~Throws(item, selected[i].v) /\ selected[i].k \notin Reserved =>
                      GetAttribute(r.nodes[n], selected[i].k)
                          = Str(StringOf(WalkPath(item, Split(selected[i].v), 1).val))
          /\ \A attribute \in Toggled(Declared(evaluator)) :
                (\A i \in 1..Len(selected) : selected[i].k # attribute) =>
                    GetAttribute(r.nodes[n], attribute)
                        = Str(JoinTwo(ValueOf(Declared(evaluator), attribute),
                                      Registered(Declared(evaluator), attribute,
                                                 Field(item, STATE_PROPERTY).v)))
    /\ \A value \in MountInputs(mode) : \A r \in {Assigned(value)} :
          /\ r.thrown = ""
          /\ \A j \in At(r, "render") :
                r.trace[j].copy \in DOMAIN r.rends =>
                    Cardinality(ReadsOf(r, j))
                        = Len(r.rends[r.trace[j].copy].attributeEvaluators)

\* a pass over data of state x has just rendered the element whose title
\* watches x.y: the title is null, the name and the toggled class are written
C30_Witness ==
    /\ last.op \in {"data", "frame"} /\ last.rendered /\ last.thrown = ""
    /\ \E evaluator \in Evaluators : \E n \in {evaluator.activeNode} :
          /\ Entries(evaluator.stateAttributeProperty)
                = {<<STATE_GLOBAL, s_title, Dotted(<<s_x, s_y>>)>>,
                   <<STATE_GLOBAL, s_name, s_name>>}
          /\ GetAttribute(nodes[n], s_title) = Str(s_null)
          /\ GetAttribute(nodes[n], s_name) = Str(s_A)
          /\ GetAttribute(nodes[n], s_class) = Str(s_base \o <<" ">> \o s_hot)

\* ------------------------------------------------ properties of the render pass
\* Under Spec every render pass runs to its end, so once the template is
\* captured and the data has a value, the previous pass is the pass over
\* dataSource.

\* the previous pass was a pass over the data the host holds
Passed == hasValue(dataSource) /\ hasValue(template)

\* the keys of an array value, in data order (one position for a single item)
KeySeq(value) ==
    IF value.t = "arr" THEN [i \in 1..Len(value.v) |-> Field(value.v[i], dataKeyField.v)]
    ELSE <<Undefined>>

\* the calls of a handler that change the host's child list
ChildListCalls(r) ==
    SelectSeq(r.trace, LAMBDA e : e.op \in {"append", "insertBefore", "remove", "removeLast"})

\* the render pass of r moved nothing: it appended its anchor and removed it
AnchorOnly(r) ==
    /\ r.thrown = ""
    /\ At(r, "insertBefore") = {}
    /\ [i \in 1..Len(ChildListCalls(r)) |-> ChildListCalls(r)[i].op] = <<"append", "removeLast">>
    /\ ChildListCalls(r)[1].node = ChildListCalls(r)[2].node
    /\ ChildListCalls(r)[1].node[1] = -1
    /\ r.kids = kids

\* C31 as stated (repositioning, any keys): a render pass over data with the
\* same keys in the same order as the previous pass calls insertBefore on no
\* node, and changes the child list only by appending and removing its anchor.
C31_IdempotentAnyKeys ==
    Passed =>
        \A value \in DataInputs(mode) \ {Null} :
            KeySeq(value) = KeySeq(dataSource) => AnchorOnly(Assigned(value))

\* C31 (repositioning, distinct keys): a render pass over data whose keys are
\* pairwise distinct and are the keys of the previous pass in the same order
\* calls insertBefore on no node, and changes the child list only by appending
\* and removing its anchor; the same holds for every pass of context-element
\* after its first. A key that occurs twice has its nodes inserted again in
\* every pass.
C31_IdempotentRepositioning ==
    Passed =>
        \A value \in DataInputs(mode) \ {Null} : \A r \in {Assigned(value)} :
            /\ (KeySeq(value) = KeySeq(dataSource)
                   /\ (mode = "array" => DistinctKeys(value))) => AnchorOnly(r)
            /\ (mode = "array" /\ ~DistinctKeys(value)) => At(r, "insertBefore") # {}

\* the last assignment rendered two items that were rendered before under the
\* same two keys in the same order: it cloned, evicted and moved nothing
C31_Witness ==
    /\ mode = "array" /\ last.op = "data" /\ last.thrown = ""
    /\ last.rendered /\ ~last.moved /\ ~last.cloned /\ ~last.evicted
    /\ Len(dataSource.v) = 2 /\ DistinctKeys(dataSource)
    /\ Len(kids) = 4

\* the render passes that can start now: one per value the page may assign,
\* and the pass of a pending first-mount callback
Passes ==
    {Assigned(value) : value \in DataInputs(mode)}
    \cup (IF frames > 0 THEN {requestAnimationFrameCallback(Machine)} ELSE {})

\* the root nodes of the renderers the host refers to
LiveRoots(r) == UNION {SeqSet(r.rends[c].nodes) : c \in LiveRenderers(r)}

\* the child list holds no node twice
NoRepeats(list) == \A i, j \in 1..Len(list) : list[i] = list[j] => i = j

\* C32 (children after a pass): after a render pass that completes, in both
\* modes, the anchor the pass appended is not a child of the host and the
\* host's children are exactly the root nodes of the live renderers.
C32_ChildrenAfterPass ==
    \A r \in Passes :
        (PassCompleted(r) /\ At(r, "append") # {}) =>
            /\ \A i \in At(r, "append") : IndexIn(r.kids, r.trace[i].node) = 0
            /\ NoRepeats(r.kids)
            /\ SeqSet(r.kids) = LiveRoots(r)

\* the <template> anchors among the children a handler leaves
AnchorsIn(list) == {i \in 1..Len(list) : list[i][1] = -1}

\* C33 (aborted pass): a render pass that ends with an error leaves the
\* host's child list as it was before the pass; no anchor remains among the
\* children, so failing passes do not pile anchors up.
C33_AbortedPass ==
    \A value \in DataInputs(mode) : \A r \in {Assigned(value)} :
        r.thrown # "" =>
            /\ r.kids = kids
            /\ AnchorsIn(r.kids) = {}

\* the values hasNoValue takes for no data
Absent == {Undefined, Null, Str(<<>>)}

\* the handler left the children, the nodes, the registry and the renderers
\* (their snapshots included) as they are now, and made no call of a pass
Untouched(r) ==
    /\ r.kids = kids /\ r.nodes = nodes
    /\ r.renderer = renderer /\ r.renderers = renderers /\ r.rends = rends
    /\ r.template = template
    /\ \A i \in 1..Len(r.trace) : r.trace[i].op \notin Effects

\* C34 (render without data or template): an assignment of undefined, null
\* or the empty string, and any assignment before the template is captured,
\* stores the value and changes neither the host's children nor the registry
\* nor any renderer's snapshot; while the data is absent the rendered
\* fragments stay, and a listener on them still dispatches with the snapshot
\* its renderer was handed by the last pass, the reducer receiving the absent
\* data, and what it returns being stored without a pass while that is absent.
C34_RenderNoOp ==
    /\ \A value \in DataInputs(mode) \cup Absent : \A r \in {Assigned(value)} :
          (hasNoValue(value) \/ hasNoValue(template)) =>
              /\ r.thrown = "" /\ r.dataSource = value
              /\ Untouched(r)
    /\ hasNoValue(dataSource) =>
          \A f \in Firings : \A r \in {Dispatched(f)} :
          \A listener \in {Reached(f[1], f[2])[1]} :
              /\ \A i \in At(r, "listener") \cup At(r, "ignored") :
                    r.trace[i].snapshot = rends[listener.renderer].dataGetter
              /\ \A i \in At(r, "reducer") :
                    /\ r.trace[i].oldData = dataSource
                    /\ mode = "array" =>
                          /\ r.trace[i].action.data = rends[listener.renderer].dataGetter.data
                          /\ r.trace[i].action.key = rends[listener.renderer].dataGetter.key
                          /\ r.trace[i].action.index = rends[listener.renderer].dataGetter.index
              /\ At(r, "reducer") \cup At(r, "ignored") # {}
              /\ hasNoValue(r.dataSource) => Untouched(r)

\* null was assigned after a pass rendered two items: both fragments and both
\* registry entries are still there, and a click reaches a listener
C34_Witness ==
    /\ mode = "array" /\ last.op = "data" /\ dataSource = Null
    /\ Len(kids) = 4 /\ Cardinality(DOMAIN renderers) = 2
    /\ \E f \in Firings : At(Dispatched(f), "reducer") # {}

\* the position in the data of the first item with the key of item i
FirstWith(value, i) ==
    CHOOSE p \in 1..i :
        /\ Field(value.v[p], dataKeyField.v) = Field(value.v[i], dataKeyField.v)
        /\ \A q \in 1..(p - 1) :
              Field(value.v[q], dataKeyField.v) # Field(value.v[i], dataKeyField.v)

\* the positions of the items that are the first with their key, in data order
Firsts(value) ==
    SelectSeq([i \in 1..Len(value.v) |-> i], LAMBDA i : FirstWith(value, i) = i)

\* C35 (duplicate keys): when a render pass of context-array completes, the
\* items with the same key share one renderer and its root nodes; the host
\* shows one fragment per key, in the order of the first items with each key;
\* every item is rendered by the renderer of its key, and the last render of
\* each renderer, whose snapshot it keeps, is the one with the data and index
\* of the first item with that key.
C35_DuplicateKeys ==
    \A value \in RepeatInputs \ {Null} : \A r \in {Assigned(value)} :
        PassCompleted(r) =>
        \A renders \in {Calls(r, "render")} : \A firsts \in {Firsts(value)} :
            /\ DOMAIN r.renderers = KeysOf(value)
            /\ r.kids = Flatten([j \in 1..Len(firsts) |->
                   r.rends[r.renderers[Field(value.v[firsts[j]], dataKeyField.v)]].nodes])
            /\ Len(r.kids) = Cardinality(KeysOf(value)) * Len(template.v)
            /\ Len(renders) = Len(value.v)
            /\ Len(Calls(r, "clone")) = Cardinality(KeysOf(value) \ DOMAIN renderers)
            /\ \A i \in 1..Len(value.v) :
               \A k \in {Field(value.v[i], dataKeyField.v)} :
               \A p \in {FirstWith(value, i)} :
                  /\ renders[Len(value.v) + 1 - i].copy = r.renderers[k]
                  /\ r.rends[r.renderers[k]].dataGetter
                         = [data |-> value.v[p], key |-> k, index |-> p - 1]
                  /\ \A j \in (Len(value.v) + 2 - p)..Len(value.v) :
                        renders[j].copy # r.renderers[k]

\* a pass over three items, the first and the third with one key in different
\* states and another key between them: two fragments, the first the repeated
\* key's, whose renderer holds the first item at index 0
C35_Witness ==
    /\ last.op = "data" /\ last.thrown = "" /\ last.rendered
    /\ Len(dataSource.v) = 3
    /\ Field(dataSource.v[1], s_id) = Field(dataSource.v[3], s_id)
    /\ Field(dataSource.v[1], s_id) # Field(dataSource.v[2], s_id)
    /\ dataSource.v[1] # dataSource.v[3]
    /\ Len(kids) = 4
    /\ kids[1] \in SeqSet(rends[renderers[Field(dataSource.v[1], s_id)]].nodes)
    /\ rends[renderers[Field(dataSource.v[1], s_id)]].dataGetter.data = dataSource.v[1]
    /\ rends[renderers[Field(dataSource.v[1], s_id)]].dataGetter.index = 0

\* --------------------------------------- properties of the reducer's binding

\* C36 (reducer binding time): a renderer constructed in a pass holds the
\* reducer the host has in that pass and a renderer that exists keeps the one
\* it holds, whatever the host's reducer has become; the reducer a listener
\* calls is the one its renderer holds, not the host's.
C36_ReducerBinding ==
    /\ \A r \in Passes : \A c \in LiveRenderers(r) :
          r.rends[c].reducer = IF c \in DOMAIN rends THEN rends[c].reducer ELSE reducer
    /\ \A f \in Firings : \A r \in {Dispatched(f)} :
       \A listener \in {Reached(f[1], f[2])[1]} :
          \A i \in At(r, "reducer") :
              r.trace[i].reducer = rends[listener.renderer].reducer

\* context-array shows two items, the first seen before the page replaced the
\* reducer and the second after: their renderers hold different reducers, and
\* a click on the first item's button calls a reducer the host no longer has
C36_Witness ==
    /\ mode = "array" /\ Cardinality(DOMAIN renderers) = 2
    /\ \E k1, k2 \in DOMAIN renderers :
          rends[renderers[k1]].reducer # rends[renderers[k2]].reducer
    /\ \E f \in Firings : \E i \in At(Dispatched(f), "reducer") :
          Dispatched(f).trace[i].reducer # reducer

\* ------------------------------------- properties of the unbound attributes

\* the keywords populateActiveAttributeValue looks for
Keywords == <<DATA_WATCH_ATTRIBUTE, DATA_ACTION_ATTRIBUTE, DATA_TOGGLE_ATTRIBUTE>>

\* a name that contains a keyword and ends with none
Unbound(name) ==
    /\ Contains(name, Keywords)
    /\ \A i \in 1..Len(Keywords) : ~EndsWith(name, Keywords[i])

\* the attributes of a declaration whose names are unbound
UnboundIn(declared) == {declared[i] : i \in {j \in 1..Len(declared) : Unbound(declared[j].k)}}

\* the values of a list of attributes or map entries under a name
Under(list, name) == {list[i].v : i \in {j \in 1..Len(list) : list[j].k = name}}

\* C37 (stripped but unbound): an element whose attribute name contains
\* 'watch', 'action' or 'toggle' gets an evaluator, even when no name ends
\* with the keyword; the constructor removes every such attribute from the
\* node, once; the three tables hold entries only for the names that end with
\* their keyword, so an unbound attribute is in no table; and it is not in
\* the default-attribute map either.
C37_StrippedUnbound ==
    /\ \A evaluator \in Evaluators : \A declared \in {Declared(evaluator)} :
          /\ \A a \in UnboundIn(declared) :
                /\ Under(nodes[evaluator.activeNode].attrs, a.k) = {}
                /\ Under(evaluator.defaultAttributeValue, a.k) = {}
          /\ Entries(evaluator.stateAttributeProperty)
                = LastDeclared(SelectSeq(declared, LAMBDA a : ~Unbound(a.k)),
                               DATA_WATCH_ATTRIBUTE, WatchKey)
          /\ Entries(evaluator.attributeStateProperty)
                = LastDeclared(SelectSeq(declared, LAMBDA a : ~Unbound(a.k)),
                               DATA_TOGGLE_ATTRIBUTE, ToggleKey)
          /\ Entries(evaluator.eventStateAction)
                = LastDeclared(SelectSeq(declared, LAMBDA a : ~Unbound(a.k)),
                               DATA_ACTION_ATTRIBUTE, ActionKey)
          /\ Cardinality(Entries(evaluator.stateAttributeProperty))
               + Cardinality(Entries(evaluator.attributeStateProperty))
               + Cardinality(Entries(evaluator.eventStateAction))
                <= Len(declared) - Cardinality(UnboundIn(declared))
    /\ \A value \in MountInputs(mode) : \A r \in {Assigned(value)} :
          \A i \in At(r, "clone") :
          \A scanned \in {Subtree(r.nodes, r.template.v)} :
          \A p \in 1..Len(scanned) :
              (~Nested(r, p) /\ UnboundIn(r.nodes[scanned[p]].attrs) # {}) =>
                  \A n \in {<<r.trace[i].copy, p>>} :
                      /\ \E j \in At(r, "populateDefaultAttributeValue") : r.trace[j].node = n
                      /\ \A a \in UnboundIn(r.nodes[scanned[p]].attrs) :
                            Cardinality({j \in Removals(r, n) : r.trace[j].name = a.k}) = 1

\* the host holds an evaluator of the element declared with watcher,
\* data-action-id and toggled next to class, title.watch and action, and has
\* rendered it: one watch entry, one action entry, no toggle entry, the class
\* as only default, and no watcher attribute on the node
C37_Witness ==
    \E evaluator \in Evaluators :
        /\ Cardinality(UnboundIn(Declared(evaluator))) = 3
        /\ Entries(evaluator.stateAttributeProperty) = {<<STATE_GLOBAL, s_title, s_name>>}
        /\ Entries(evaluator.eventStateAction) = {<<s_click, STATE_GLOBAL, s_NEXT>>}
        /\ evaluator.attributeStateProperty = <<>>
        /\ evaluator.defaultAttributeValue = <<Attr(s_class, s_base)>>
        /\ Under(nodes[evaluator.activeNode].attrs, s_watcher) = {}
        /\ last.rendered

\* ------------------------------------------ properties of the two-way callback

\* element[eventName](val) on a node that holds the callback: the object the
\* callback closed over, after injectValue(data, property, val); the callback
\* calls nothing else
Invoked(n, eventName, val) ==
    injectValue(MapGet(nodes[n].cb, eventName).data,
                MapGet(nodes[n].cb, eventName).property, val)

\* C38 (callback target): the <attribute>Changed callback a node holds writes
\* into the data object its renderer was handed by the most recent pass, at
\* the bound path, whatever passes came after the one that installed it.
C38_CallbackTarget ==
    \A evaluator \in Evaluators : \A n \in {evaluator.activeNode} :
    \A i \in 1..Len(nodes[n].cb) :
        /\ nodes[n].cb[i].v.data = rends[n[1]].dataGetter.data
        /\ \A val \in Inputs :
              Invoked(n, nodes[n].cb[i].k, val)
                  = injectValue(rends[n[1]].dataGetter.data, nodes[n].cb[i].v.property, val)

\* ------------------------------------------- properties of the watch tables

\* the entries of the global table for attributes the table of the state lacks
GlobalOnly(table, state) ==
    IF MapHas(table, state) /\ MapHas(table, STATE_GLOBAL)
    THEN SelectSeq(MapGet(table, STATE_GLOBAL), LAMBDA e : ~MapHas(MapGet(table, state), e.k))
    ELSE <<>>

\* C39 (tables are not merged): when an evaluator renders data whose state
\* has its own watch table on the node, the watch pass writes the attributes
\* of that table and no other; a binding the node declares under the global
\* state only, for another attribute, is not applied: the pass writes neither
\* the attribute nor the property, installs no callback for it, and (the
\* attribute not being toggled) the attribute keeps the value it had, which is
\* the one written by the last pass that selected the global table.
C39_TablesNotMerged ==
    \A evaluator \in Evaluators : \A item \in Items : \A r \in {Rendered(evaluator, item)} :
    \A n \in {evaluator.activeNode} : \A state \in {Field(item, STATE_PROPERTY).v} :
        MapHas(evaluator.stateAttributeProperty, state) =>
            /\ [i \in 1..Len(Writes(r, "watch")) |-> Writes(r, "watch")[i].name]
                  = [i \in 1..Len(MapGet(evaluator.stateAttributeProperty, state)) |->
                        MapGet(evaluator.stateAttributeProperty, state)[i].k]
            /\ \A i \in 1..Len(GlobalOnly(evaluator.stateAttributeProperty, state)) :
               \A attribute \in {GlobalOnly(evaluator.stateAttributeProperty, state)[i].k} :
                  /\ \A j \in At(r, "setAttribute") :
                        r.trace[j].by = "watch" => r.trace[j].name # attribute
                  /\ MapHas(r.nodes[n].props, attribute) = MapHas(nodes[n].props, attribute)
                  /\ MapHas(nodes[n].props, attribute) =>
                        MapGet(r.nodes[n].props, attribute) = MapGet(nodes[n].props, attribute)
                  /\ MapHas(r.nodes[n].cb, attribute \o s_Changed)
                        = MapHas(nodes[n].cb, attribute \o s_Changed)
                  /\ MapHas(nodes[n].cb, attribute \o s_Changed) =>
                        MapGet(r.nodes[n].cb, attribute \o s_Changed)
                            = MapGet(nodes[n].cb, attribute \o s_Changed)
                  /\ attribute \notin Toggled(Declared(evaluator)) =>
                        GetAttribute(r.nodes[n], attribute) = GetAttribute(nodes[n], attribute)

\* a pass over data of state x has just rendered the button that watches
\* the title under the global state and the name under x: the name is
\* written, and the title is still the name of the item of state y that an
\* earlier pass wrote
C39_Witness ==
    /\ last.op \in {"data", "frame"} /\ last.rendered /\ last.thrown = "" /\ last.written
    /\ \E c \in DOMAIN rends :
          /\ rends[c].dataGetter # NoGetter
          /\ Field(rends[c].dataGetter.data, STATE_PROPERTY) = Str(s_x)
          /\ \E i \in 1..Len(rends[c].attributeEvaluators) :
             \E n \in {rends[c].attributeEvaluators[i].activeNode} :
                /\ GlobalOnly(rends[c].attributeEvaluators[i].stateAttributeProperty, s_x) # <<>>
                /\ GetAttribute(nodes[n], s_title) = Str(s_B)
                /\ GetAttribute(nodes[n], s_name) = Str(StringOf(Num(1)))
====
